---- MODULE Spec2Model ----
(***************************************************************************)
(* Model of the internal-directory engine of cont-portal.                  *)
(*                                                                         *)
(* Part 1 (Spec): the server's directory cache, refreshInternosCache, the  *)
(* warm load at process start and the GET /api/internos handler            *)
(* (src/unnamed/part_001).  refreshInternosCache is an async function: the *)
(* model has one step per stretch of code that runs without an await.  The *)
(* source calls it once, for the warm load; the model lets it be called    *)
(* MaxCalls times, invocation 1 being the warm load.  A payload is named   *)
(* by the modification time of the content it was parsed from and by the  *)
(* invocation that parsed it; modification times grow with every write.    *)
(* internosCache.lastLoadedAt (a wall-clock stamp nothing reads) is left   *)
(* out.                                                                    *)
(*                                                                         *)
(* Part 2 (HeaderSpec): text normalisation and detectHeaderMapping, run on *)
(* grids of cells.                                                         *)
(*                                                                         *)
(* Part 3 (ExtractSpec): processExcelData, run on grids of cells.          *)
(*                                                                         *)
(* Part 4 (SearchSpec): the search of the page, filteredResults with       *)
(* computeSearchScore and groupResultsByDepartment, run on record lists    *)
(* and queries.                                                            *)
(*                                                                         *)
(* Part 5 (MemoSpec): the memo table of cachedNormalizeText over calls of   *)
(* the normalizer and parses of one grid.  The server's table is written    *)
(* by header detection and row extraction too; the page of part_005 runs in *)
(* the browser with a table of its own.                                     *)
(*                                                                         *)
(* Part 6 (WorkerSpec): the parsing worker of the page                      *)
(* (src/unnamed/part_004): self.onmessage over the messages posted to it.   *)
(* Its detectHeaderMapping and processExcelData are, statement for          *)
(* statement, those of part_001, and the model runs the same operators.     *)
(* The worker imports cachedNormalizeText from lib/normalize, which is not  *)
(* among the sources: the model uses the server's normalizer and leaves the *)
(* worker's own memo table out.                                             *)
(*                                                                         *)
(* Part 7 (HookSpec): loadData and transformErrorMessage of the page's hook *)
(* useInternalDirectory (src/unnamed/part_005).  loadData is made by        *)
(* useCallback: its guard reads the state values of the render that made    *)
(* it, and the setters change what the next render will see.  The model     *)
(* keeps both, and a render brings the second up to the first.  What the    *)
(* server answers the fetch with is the environment's choice.               *)
(***************************************************************************)
EXTENDS Integers, Sequences, FiniteSets, TLC

VARIABLES
  file,           \* the source file dist/internos.xlsx on disk
  internosCache,  \* the module-level cache object
  calls,          \* the invocations of refreshInternosCache
  pcMain,         \* the module's top-level code: "warm" or "listening"
  response,       \* the last answer of GET /api/internos
  rawData,        \* the grid handed to detectHeaderMapping
  mapping,        \* what detectHeaderMapping returned
  sheet,          \* the grid handed to processExcelData
  personnel,      \* what processExcelData returned
  allPersonnel,   \* the record list of the page
  query,          \* the text of the search box
  results,        \* filteredResults
  groupedResults, \* groupResultsByDepartment(filteredResults)
  textNormalizationCache, \* the Map of line 92: entries in insertion order
  parseLog,       \* what each parse of the grid returned and found held
  returned,       \* the last call of cachedNormalizeText and its answer
  fillers,        \* the blocks of other texts normalized so far
  inbox,          \* the messages posted to the parsing worker, in order
  handlers,       \* the invocations of self.onmessage, one per message handled
  outbox,         \* what the worker posted back, in order
  hook,           \* the state of useInternalDirectory as the setters left it
  rendered,       \* the state the last render saw: what loadData's closure reads
  loads           \* the calls of loadData

cacheVars == <<file, internosCache, calls, pcMain, response>>
headerVars == <<rawData, mapping>>
extractVars == <<sheet, personnel>>
searchVars == <<allPersonnel, query, results, groupedResults>>

\* the variables refreshInternosCache and the endpoint never touch
memoVars == <<parseLog, returned, fillers>>
workerVars == <<inbox, handlers, outbox>>
\* the variables of the code that runs in the browser
hookVars == <<hook, rendered, loads>>
pageVars == <<workerVars, hookVars>>
otherVars ==
  <<headerVars, extractVars, searchVars, memoVars, textNormalizationCache, pageVars>>

vars ==
  <<cacheVars, headerVars, extractVars, searchVars, memoVars, textNormalizationCache,
    pageVars>>

----------------------------------------------------------------------------
(* Bounds *)

\* invocations of refreshInternosCache; invocation 1 is the warm load
MaxCalls == 2
\* modification times the file goes through (it starts at 1)
MaxMtime == 2

CallIds == 1..MaxCalls

----------------------------------------------------------------------------
(* Values *)

\* internosCache.payload === null
NoPayload == [version |-> 0, by |-> 0]
\* internosCache.lastError === null
NoError == [code |-> "none", by |-> 0]
NoStat == [ok |-> FALSE, mtimeMs |-> 0, code |-> "none"]
NoRead == [state |-> "none", version |-> 0, kind |-> "none", code |-> "none"]
NoResult == [kind |-> "none", payload |-> NoPayload, error |-> NoError]
NoResponse == [status |-> 0, body |-> NoPayload, error |-> "none"]

FileKinds == {"ok", "corrupt", "empty"}

IdleCall ==
  [pc |-> "idle", force |-> FALSE, stat |-> NoStat, read |-> NoRead,
   joined |-> 0, seen |-> {}, result |-> NoResult]

ListResult(p) == [kind |-> "list", payload |-> p, error |-> NoError]
ErrorResult(e) == [kind |-> "error", payload |-> NoPayload, error |-> e]

----------------------------------------------------------------------------
(* The collaborators: fs.stat and readXlsxFile *)

\* fs.stat(internosPath): the modification time, or ENOENT when the file is
\* missing.
fsStat(f) ==
  IF f.exists
    THEN [ok |-> TRUE, mtimeMs |-> f.mtimeMs, code |-> "none"]
    ELSE [ok |-> FALSE, mtimeMs |-> 0, code |-> "ENOENT"]

\* readXlsxFile(internosPath): the rows of the content on disk at the time of
\* the read, or a rejection (missing file, undecodable workbook).
readXlsxFile(f) ==
  IF ~f.exists
    THEN [state |-> "err", version |-> 0, kind |-> "none", code |-> "ENOENT"]
  ELSE IF f.kind = "corrupt"
    THEN [state |-> "err", version |-> 0, kind |-> "none", code |-> "DECODE"]
  ELSE [state |-> "rows", version |-> f.mtimeMs, kind |-> f.kind, code |-> "none"]

\* The body of loadPromise after the read: clampRows, the empty-grid throw
\* and processExcelData.  c is the invocation that owns the promise.
LoadOutcome(c, read) ==
  IF read.state = "err"
    THEN ErrorResult([code |-> read.code, by |-> c])
  ELSE IF read.kind = "empty"
    THEN ErrorResult([code |-> "EMPTY", by |-> c])
  ELSE ListResult([version |-> read.version, by |-> c])

----------------------------------------------------------------------------
(* refreshInternosCache *)

\* ServeCached without the comparison of modification times
ServeCached_IgnoresMtime(force, cache, stat) ==
  /\ ~force
  /\ cache.payload # NoPayload

\* ServeCached without the test of force
ServeCached_IgnoresForce(force, cache, stat) ==
  /\ cache.payload # NoPayload
  /\ cache.mtimeMs = stat.mtimeMs

\* line 333: the cached list is served without a parse
ServeCached(force, cache, stat) ==
  /\ ~force
  /\ cache.payload # NoPayload
  /\ cache.mtimeMs = stat.mtimeMs

\* CacheAfterSuccess without line 360
CacheAfterSuccess_KeepsError(cache, stat, payload) ==
  [cache EXCEPT !.mtimeMs = stat.mtimeMs,
                !.payload = payload,
                !.inflight = 0]

\* lines 356-361 and the finally of line 366, one synchronous stretch
CacheAfterSuccess(cache, stat, payload) ==
  [cache EXCEPT !.mtimeMs = stat.mtimeMs,
                !.payload = payload,
                !.lastError = NoError,
                !.inflight = 0]

\* CacheAfterFailure that also drops the snapshot
CacheAfterFailure_Evicts(cache, error) ==
  [cache EXCEPT !.lastError = error,
                !.payload = NoPayload,
                !.mtimeMs = 0,
                !.inflight = 0]

\* CacheAfterFailure without the finally of line 366
CacheAfterFailure_KeepsMarker(cache, error) ==
  [cache EXCEPT !.lastError = error]

\* lines 362-366: the catch and the finally
CacheAfterFailure(cache, error) ==
  [cache EXCEPT !.lastError = error,
                !.inflight = 0]

\* What the invocation's own promise settles with after its loadPromise
\* settled: the payload (line 361) or the rethrown error (line 364).
StarterResult(cache, outcome) == outcome

InProgress == {d \in CallIds : calls[d].pc \notin {"idle", "done"}}

\* The call is made and fs.stat is issued (line 332); the stat observes the
\* file.  Invocation 1 is the forced warm load of line 602.
Invoke(c, force) ==
  /\ calls[c].pc = "idle"
  /\ IF c = 1 THEN force /\ pcMain = "warm" ELSE calls[c - 1].pc # "idle"
  /\ calls' = [calls EXCEPT ![c] =
       [@ EXCEPT !.pc = "stat", !.force = force, !.stat = fsStat(file),
                 !.seen = InProgress]]
  /\ UNCHANGED <<file, internosCache, pcMain, response>>
  /\ UNCHANGED otherVars

\* line 332: the await of fs.stat rejects, the invocation rejects
StatFailed(c) ==
  /\ calls[c].pc = "stat"
  /\ ~calls[c].stat.ok
  /\ calls' = [calls EXCEPT ![c] =
       [@ EXCEPT !.pc = "done",
                 !.result = ErrorResult([code |-> calls[c].stat.code, by |-> c])]]
  /\ UNCHANGED <<file, internosCache, pcMain, response>>
  /\ UNCHANGED otherVars

\* lines 333-335
CacheHit(c) ==
  /\ calls[c].pc = "stat"
  /\ calls[c].stat.ok
  /\ ServeCached(calls[c].force, internosCache, calls[c].stat)
  /\ calls' = [calls EXCEPT ![c] =
       [@ EXCEPT !.pc = "done", !.result = ListResult(internosCache.payload)]]
  /\ UNCHANGED <<file, internosCache, pcMain, response>>
  /\ UNCHANGED otherVars

\* lines 337-339: the invocation returns the in-flight promise
JoinInflight(c) ==
  /\ calls[c].pc = "stat"
  /\ calls[c].stat.ok
  /\ ~ServeCached(calls[c].force, internosCache, calls[c].stat)
  /\ internosCache.inflight # 0
  /\ calls' = [calls EXCEPT ![c] =
       [@ EXCEPT !.pc = "joined", !.joined = internosCache.inflight]]
  /\ UNCHANGED <<file, internosCache, pcMain, response>>
  /\ UNCHANGED otherVars

\* lines 341-356: loadPromise is created (readXlsxFile is called) and stored,
\* the invocation awaits it
StartLoad(c) ==
  /\ calls[c].pc = "stat"
  /\ calls[c].stat.ok
  /\ ~ServeCached(calls[c].force, internosCache, calls[c].stat)
  /\ internosCache.inflight = 0
  /\ calls' = [calls EXCEPT ![c] = [@ EXCEPT !.pc = "loading"]]
  /\ internosCache' = [internosCache EXCEPT !.inflight = c]
  /\ UNCHANGED <<file, pcMain, response>>
  /\ UNCHANGED otherVars

\* line 342: the read of the file happens
ReadFile(c) ==
  /\ calls[c].pc = "loading"
  /\ calls[c].read = NoRead
  /\ calls' = [calls EXCEPT ![c] = [@ EXCEPT !.read = readXlsxFile(file)]]
  /\ UNCHANGED <<file, internosCache, pcMain, response>>
  /\ UNCHANGED otherVars

\* lines 343-350 and 356-367: loadPromise settles, the invocation that owns
\* it resumes, and the invocations that returned the same promise settle
\* with it.
Settle(c) ==
  /\ calls[c].pc = "loading"
  /\ calls[c].read # NoRead
  /\ LET outcome == LoadOutcome(c, calls[c].read)
     IN /\ internosCache' =
             IF outcome.kind = "list"
               THEN CacheAfterSuccess(internosCache, calls[c].stat, outcome.payload)
               ELSE CacheAfterFailure(internosCache, outcome.error)
        /\ calls' = [d \in CallIds |->
             IF d = c
               THEN [calls[d] EXCEPT !.pc = "done",
                                     !.result = StarterResult(internosCache, outcome)]
             ELSE IF calls[d].pc = "joined" /\ calls[d].joined = c
               THEN [calls[d] EXCEPT !.pc = "done", !.result = outcome]
             ELSE calls[d]]
  /\ UNCHANGED <<file, pcMain, response>>
  /\ UNCHANGED otherVars

----------------------------------------------------------------------------
(* The file changes under the server *)

\* The file is written: new content, a later modification time.
Touch(kind) ==
  /\ file.mtimeMs < MaxMtime
  /\ file' = [exists |-> TRUE, mtimeMs |-> file.mtimeMs + 1, kind |-> kind]
  /\ UNCHANGED <<internosCache, calls, pcMain, response>>
  /\ UNCHANGED otherVars

Remove ==
  /\ file.exists
  /\ file' = [file EXCEPT !.exists = FALSE]
  /\ UNCHANGED <<internosCache, calls, pcMain, response>>
  /\ UNCHANGED otherVars

----------------------------------------------------------------------------
(* Process start and the endpoint *)

\* A top level without the try/catch around the warm load
AfterWarmLoad_ExitsOnFailure(result) ==
  IF result.kind = "error" THEN "exited" ELSE "listening"

\* lines 601-610: what the top level does once the warm load has settled
AfterWarmLoad(result) == "listening"

Listen ==
  /\ pcMain = "warm"
  /\ calls[1].pc = "done"
  /\ pcMain' = AfterWarmLoad(calls[1].result)
  /\ UNCHANGED <<file, internosCache, calls, response>>
  /\ UNCHANGED otherVars

\* lines 413-431
InternosResponse(cache) ==
  IF cache.payload # NoPayload
    THEN [status |-> 200, body |-> cache.payload, error |-> "none"]
  ELSE IF cache.inflight # 0
    THEN [status |-> 503, body |-> NoPayload, error |-> "Directorio interno en carga"]
  ELSE IF cache.lastError.code = "ENOENT"
    THEN [status |-> 404, body |-> NoPayload,
          error |-> "No se encontro el archivo del directorio interno"]
  ELSE [status |-> 503, body |-> NoPayload, error |-> "Directorio interno no disponible"]

GetInternos ==
  /\ pcMain = "listening"
  /\ response' = InternosResponse(internosCache)
  /\ UNCHANGED <<file, internosCache, calls, pcMain>>
  /\ UNCHANGED otherVars


----------------------------------------------------------------------------
(* Part 2: text.  A text is a sequence of characters, a character a string. *)
(* The accented letters are written with an ASCII mark after the letter:   *)
(* "a'" is a-acute, "n~" is n-tilde; each is one character.  "+'" is the   *)
(* combining acute accent U+0301 on its own, as a decomposed text has it   *)
(* after its letter.                                                       *)

LowerLetters == <<"a", "b", "c", "d", "e", "f", "g", "h", "i", "j", "k", "l", "m", "n", "o", "p", "q", "r", "s", "t", "u", "v", "w", "x", "y", "z">>
UpperLetters == <<"A", "B", "C", "D", "E", "F", "G", "H", "I", "J", "K", "L", "M", "N", "O", "P", "Q", "R", "S", "T", "U", "V", "W", "X", "Y", "Z">>
LowerAccented == <<"a'", "e'", "i'", "o'", "u'", "n~">>
UpperAccented == <<"A'", "E'", "I'", "O'", "U'", "N~">>
AccentBase == <<"a", "e", "i", "o", "u", "n">>
UpperAccentBase == <<"A", "E", "I", "O", "U", "N">>
Digits == {"0", "1", "2", "3", "4", "5", "6", "7", "8", "9"}

Range(s) == {s[i] : i \in DOMAIN s}
IndexOf(s, x) == CHOOSE i \in DOMAIN s : s[i] = x

\* \s of the regular expressions, and the characters String.prototype.trim
\* removes
IsSpace(c) == c \in {" ", "\t", "\n", "\r"}
\* \w
WordChars == Range(LowerLetters) \cup Range(UpperLetters) \cup Digits \cup {"_"}
IsWord(c) == c \in WordChars

\* String.prototype.toLowerCase, one character
LowerTable ==
  [c \in Range(UpperLetters) \cup Range(UpperAccented) |->
     IF c \in Range(UpperLetters) THEN LowerLetters[IndexOf(UpperLetters, c)]
     ELSE LowerAccented[IndexOf(UpperAccented, c)]]

LowerChar(c) == IF c \in DOMAIN LowerTable THEN LowerTable[c] ELSE c

\* .normalize("NFD") and the removal of the combining marks U+0300 to
\* U+036F, one character: the letter without its combining mark
MarkTable ==
  [c \in Range(LowerAccented) \cup Range(UpperAccented) |->
     IF c \in Range(LowerAccented) THEN AccentBase[IndexOf(LowerAccented, c)]
     ELSE UpperAccentBase[IndexOf(UpperAccented, c)]]

StripMark(c) == IF c \in DOMAIN MarkTable THEN MarkTable[c] ELSE c

toLowerCase(s) == [i \in DOMAIN s |-> LowerChar(s[i])]
\* the characters U+0300 to U+036F that texts hold as characters of their own
CombiningMarks == {"+'"}
IsNotCombiningMark(c) == c \notin CombiningMarks

stripMarks(s) == SelectSeq([i \in DOMAIN s |-> StripMark(s[i])], IsNotCombiningMark)

RECURSIVE trimStart(_)
trimStart(s) ==
  IF s # <<>> /\ IsSpace(Head(s)) THEN trimStart(Tail(s)) ELSE s

RECURSIVE trimEnd(_)
trimEnd(s) ==
  IF s # <<>> /\ IsSpace(s[Len(s)]) THEN trimEnd(SubSeq(s, 1, Len(s) - 1)) ELSE s

\* String.prototype.trim
trim(s) == trimEnd(trimStart(s))

\* [,\s-]
IsSeparator(c) == IsSpace(c) \/ c \in {",", "-"}

RECURSIVE dropSeparators(_)
dropSeparators(s) ==
  IF s # <<>> /\ IsSeparator(Head(s)) THEN dropSeparators(Tail(s)) ELSE s

\* .replace(/[,\s-]+/g, " ")
RECURSIVE collapseSeparators(_)
collapseSeparators(s) ==
  IF s = <<>> THEN <<>>
  ELSE IF IsSeparator(Head(s))
    THEN <<" ">> \o collapseSeparators(dropSeparators(Tail(s)))
  ELSE <<Head(s)>> \o collapseSeparators(Tail(s))

IsWordOrSpace(c) == IsWord(c) \/ IsSpace(c)

\* .replace(/[^\w\s]/g, "")
stripNonWord(s) == SelectSeq(s, IsWordOrSpace)

\* String.prototype.includes
includes(s, t) ==
  \E i \in 0..(Len(s) - Len(t)) : SubSeq(s, i + 1, i + Len(t)) = t

\* The normalizer keeps the case of the letters
normalizeText_KeepCase(text) ==
  trim(stripNonWord(collapseSeparators(stripMarks(text))))

\* normalizeText, lines 94-100
normalizeText(text) ==
  trim(stripNonWord(collapseSeparators(stripMarks(toLowerCase(text)))))

\* line 107: the size above which the oldest entry is deleted
MemoLimit == 1000

\* textNormalizationCache.has(text), line 103
MemoHas(cache, text) == \E i \in DOMAIN cache : cache[i].key = text

\* textNormalizationCache.get(text), line 104
MemoGet(cache, text) == cache[CHOOSE i \in DOMAIN cache : cache[i].key = text].value

\* cachedNormalizeText, lines 102-115, what it returns: the held value on a
\* hit, the computed one on a miss
cachedNormalizeText(text) ==
  IF MemoHas(textNormalizationCache, text)
    THEN MemoGet(textNormalizationCache, text)
    ELSE normalizeText(text)

\* The new entry holds the text itself
MemoEntry_RawText(text) == [key |-> text, value |-> text]

\* lines 106 and 113: the entry a miss writes
MemoEntry(text) == [key |-> text, value |-> normalizeText(text)]

\* cachedNormalizeText, lines 102-115, what it does to the table.  A key is
\* a text, never undefined, so the test of line 109 passes.
MemoAfterCall(cache, text) ==
  IF MemoHas(cache, text) THEN cache
  ELSE Append(IF Len(cache) > MemoLimit THEN Tail(cache) ELSE cache,
              MemoEntry(text))

\* the table after the calls on texts[lo], ..., texts[hi] in this order (the
\* first half of the calls, then the second half)
RECURSIVE MemoAfterRange(_, _, _, _)
MemoAfterRange(cache, texts, lo, hi) ==
  IF lo > hi THEN cache
  ELSE IF lo = hi THEN MemoAfterCall(cache, texts[lo])
  ELSE LET mid == (lo + hi) \div 2
           half == MemoAfterRange(cache, texts, lo, mid)
       IN IF Len(half) = 0 THEN MemoAfterRange(<<>>, texts, mid + 1, hi)
          ELSE MemoAfterRange(half, texts, mid + 1, hi)

\* the table after the calls on the texts in their order
MemoAfterCalls(cache, texts) == MemoAfterRange(cache, texts, 1, Len(texts))

\* Cells as the spreadsheet decoder yields them: a string, a number (text
\* holds String(value)) or null
Str(text) == [type |-> "string", text |-> text]
Num(text) == [type |-> "number", text |-> text]
NullCell == [type |-> "null", text |-> <<>>]

\* normalizeCellValue, lines 126-129
normalizeCellValue(value) ==
  IF value.type = "null" THEN <<>> ELSE trim(value.text)

----------------------------------------------------------------------------
(* Part 2: header detection (HeaderSpec) *)

HEADER_SCAN_ROWS == 20

HEADER_TOKENS ==
  [extension |->
    {
      <<"i", "n", "t", "e", "r", "n", "o">>,
      <<"i", "n", "t", "e", "r", "n", "o", "s">>,
      <<"e", "x", "t", "e", "n", "s", "i", "o", "n">>,
      <<"e", "x", "t">>,
      <<"a", "n", "e", "x", "o">>,
      <<"t", "e", "l", "e", "f", "o", "n", "o">>,
      <<"t", "e", "l", "e", "f", "o", "n", "o", "s">>,
      <<"i", "n", "t">> },
   department |->
    {
      <<"s", "e", "c", "t", "o", "r">>,
      <<"d", "e", "p", "a", "r", "t", "a", "m", "e", "n", "t", "o">>,
      <<"a", "r", "e", "a">>,
      <<"u", "n", "i", "d", "a", "d">>,
      <<"s", "e", "c", "c", "i", "o", "n">> },
   title |->
    {
      <<"t", "i", "t", "u", "l", "o">>,
      <<"c", "a", "r", "g", "o">>,
      <<"p", "u", "e", "s", "t", "o">>,
      <<"f", "u", "n", "c", "i", "o", "n">> },
   name |->
    {
      <<"a", "p", "e", "l", "l", "i", "d", "o", " ", "y", " ", "n", "o", "m", "b", "r", "e">>,
      <<"a", "p", "e", "l", "l", "i", "d", "o", "s", " ", "y", " ", "n", "o", "m", "b", "r", "e", "s">>,
      <<"a", "p", "e", "l", "l", "i", "d", "o">>,
      <<"n", "o", "m", "b", "r", "e">>,
      <<"r", "e", "s", "p", "o", "n", "s", "a", "b", "l", "e">>,
      <<"c", "o", "n", "t", "a", "c", "t", "o">> }]

DEFAULT_COLUMN_INDICES == [extension |-> 1, department |-> 2, title |-> 3, name |-> 4]

\* matchesHeaderToken, lines 148-149
matchesHeaderToken(normalized, tokens) ==
  \E token \in tokens : normalized = token \/ includes(normalized, token)

\* The callback of row.forEach, lines 167-187: acc holds map and the four
\* found flags, idx is the 0-based column.
ScanCell(acc, cell, idx) ==
  LET normalized == cachedNormalizeText(normalizeCellValue(cell))
      hitExtension ==
        ~acc.foundExtension /\ matchesHeaderToken(normalized, HEADER_TOKENS.extension)
      hitDepartment ==
        ~acc.foundDepartment /\ matchesHeaderToken(normalized, HEADER_TOKENS.department)
      hitTitle ==
        ~acc.foundTitle /\ matchesHeaderToken(normalized, HEADER_TOKENS.title)
      hitName ==
        ~acc.foundName /\ matchesHeaderToken(normalized, HEADER_TOKENS.name)
  IN IF normalized = <<>> THEN acc
     ELSE [map |->
             [extensionIndex |-> IF hitExtension THEN idx ELSE acc.map.extensionIndex,
              departmentIndex |-> IF hitDepartment THEN idx ELSE acc.map.departmentIndex,
              titleIndex |-> IF hitTitle THEN idx ELSE acc.map.titleIndex,
              nameIndex |-> IF hitName THEN idx ELSE acc.map.nameIndex],
           foundExtension |-> acc.foundExtension \/ hitExtension,
           foundDepartment |-> acc.foundDepartment \/ hitDepartment,
           foundTitle |-> acc.foundTitle \/ hitTitle,
           foundName |-> acc.foundName \/ hitName]

\* lines 156-165
ScanStart ==
  [map |-> [extensionIndex |-> -1, departmentIndex |-> -1,
            titleIndex |-> -1, nameIndex |-> -1],
   foundExtension |-> FALSE, foundDepartment |-> FALSE,
   foundTitle |-> FALSE, foundName |-> FALSE]

\* row.forEach over the cells from column idx on
RECURSIVE ScanRow(_, _, _)
ScanRow(row, idx, acc) ==
  IF idx >= Len(row) THEN acc
  ELSE ScanRow(row, idx + 1, ScanCell(acc, row[idx + 1], idx))

\* A row is taken as the header on its name cell alone
HeaderRowQualifies_NameOnly(acc) == acc.foundName

\* line 189
HeaderRowQualifies(acc) ==
  acc.foundName /\ (acc.foundExtension \/ acc.foundDepartment)

\* the for loop of lines 154-192 from row i on, and the return of lines
\* 194-202
RECURSIVE DetectFrom(_, _, _)
DetectFrom(rawRows, i, maxRows) ==
  IF i >= maxRows
    THEN [headerRowIndex |-> -1,
          columnMap |-> [extensionIndex |-> DEFAULT_COLUMN_INDICES.extension,
                         departmentIndex |-> DEFAULT_COLUMN_INDICES.department,
                         titleIndex |-> DEFAULT_COLUMN_INDICES.title,
                         nameIndex |-> DEFAULT_COLUMN_INDICES.name]]
  ELSE LET acc == ScanRow(rawRows[i + 1], 0, ScanStart)
       IN IF HeaderRowQualifies(acc)
            THEN [headerRowIndex |-> i, columnMap |-> acc.map]
            ELSE DetectFrom(rawRows, i + 1, maxRows)

Min(a, b) == IF a < b THEN a ELSE b

\* detectHeaderMapping, lines 151-203
detectHeaderMapping(rawRows) ==
  DetectFrom(rawRows, 0, Min(Len(rawRows), HEADER_SCAN_ROWS))

\* mapping before detectHeaderMapping has run
NoMapping ==
  [headerRowIndex |-> -2,
   columnMap |-> [extensionIndex |-> -2, departmentIndex |-> -2,
                  titleIndex |-> -2, nameIndex |-> -2]]

\* The grids header detection is run on: some rows without header words,
\* then up to MaxBodyRows rows of RowPool.
MaxBodyRows == 2

FillerRow == <<Str(<<"L", "i", "s", "t", "a", "d", "o">>), NullCell, Num(<<"2", "0", "2", "4">>)>>

RowPool ==
  { <<Str(<<"A", "P", "E", "L", "L", "I", "D", "O", " ", "Y", " ", "N", "O", "M", "B", "R", "E">>),
      Str(<<"S", "E", "C", "T", "O", "R">>),
      Str(<<"I", "N", "T", "E", "R", "N", "O">>)>>,
    <<Str(<<"N", "r", "o", ".">>),
      Str(<<" ", "E", "x", "t", "e", "n", "s", "i", "o'", "n", " ">>),
      Str(<<"A'", "r", "e", "a">>),
      Str(<<"T", "i'", "t", "u", "l", "o">>),
      Str(<<"N", "o", "m", "b", "r", "e">>),
      Str(<<"A", "n", "e", "x", "o">>)>>,
    <<NullCell,
      Num(<<"1", "0", "1">>),
      Str(<<"V", "e", "n", "t", "a", "s">>),
      Str(<<>>),
      Str(<<"P", "e'", "r", "e", "z", ",", " ", "J", "u", "a", "n">>)>>,
    <<Str(<<"N", "o", "m", "b", "r", "e">>),
      Str(<<"C", "a", "r", "g", "o">>)>>,
    <<Str(<<"I", "n", "t", ".">>),
      Str(<<"S", "e", "c", "t", "o", "r">>)>>,
    <<Str(<<"U", "n", "i", "d", "a", "d">>),
      Str(<<"T", "e", "l", "e'", "f", "o", "n", "o", " ", "d", "e", " ", "c", "o", "n", "t", "a", "c", "t", "o">>),
      Str(<<"R", "e", "s", "p", "o", "n", "s", "a", "b", "l", "e">>)>> }

PadChoices == {0, HEADER_SCAN_ROWS - 2, HEADER_SCAN_ROWS - 1, HEADER_SCAN_ROWS}

Bodies == UNION {[1..n -> RowPool] : n \in 0..MaxBodyRows}

Grids == {[i \in 1..pad |-> FillerRow] \o body : pad \in PadChoices, body \in Bodies}

\* line 168: the texts of the cells of rows i.. up to row last, in the order
\* the scan normalizes them
RECURSIVE CellTexts(_, _, _)
CellTexts(rawRows, i, last) ==
  IF i > last THEN <<>>
  ELSE [k \in DOMAIN rawRows[i + 1] |-> normalizeCellValue(rawRows[i + 1][k])]
         \o CellTexts(rawRows, i + 1, last)

\* the calls of cachedNormalizeText detectHeaderMapping makes: every cell of
\* every row up to the header row, or of all the rows scanned
DetectCalls(rawRows) ==
  LET detected == detectHeaderMapping(rawRows)
  IN CellTexts(rawRows, 0,
               IF detected.headerRowIndex >= 0 THEN detected.headerRowIndex
               ELSE Min(Len(rawRows), HEADER_SCAN_ROWS) - 1)

Detect ==
  /\ mapping = NoMapping
  /\ mapping' = detectHeaderMapping(rawData)
  /\ textNormalizationCache' =
       MemoAfterCalls(textNormalizationCache, DetectCalls(rawData))
  /\ UNCHANGED rawData
  /\ UNCHANGED <<cacheVars, extractVars, searchVars, memoVars, pageVars>>

----------------------------------------------------------------------------
(* Part 3: row extraction (ExtractSpec) *)

\* lines 117-120, run once when the module loads, the table being empty:
\* both calls miss
STOP_TOKENS == <<<<"t", "e", "l", "e", "f", "o", "n", "o", "s", " ", "i", "n", "t", "e", "r", "n", "o", "s", " ", "r", "e", "s", "e", "r", "v", "a">>, <<"r", "e", "s", "e", "r", "v", "a", " ", "6", "0", "0", "0">>>>

STOP_TOKEN_NORMALIZED == {normalizeText(STOP_TOKENS[k]) : k \in DOMAIN STOP_TOKENS}

\* the table once the module has loaded
MemoAtLoad == MemoAfterCalls(<<>>, STOP_TOKENS)

\* normalizeExtensionValue, line 131: .replace(/\.0+$/, "")
RECURSIVE dropTrailingZeros(_)
dropTrailingZeros(s) ==
  IF s # <<>> /\ s[Len(s)] = "0" THEN dropTrailingZeros(SubSeq(s, 1, Len(s) - 1)) ELSE s

normalizeExtensionValue(value) ==
  LET rest == dropTrailingZeros(value)
  IN IF rest # value /\ rest # <<>> /\ rest[Len(rest)] = "."
       THEN SubSeq(rest, 1, Len(rest) - 1)
       ELSE value

IsDigit(c) == c \in Digits

\* A search keeps the extension as it is lower-cased, digits or not
normalizeExtensionSearch_LowerOnly(value) == toLowerCase(value)

\* normalizeExtensionSearch, lines 133-136
normalizeExtensionSearch(value) ==
  LET digitsOnly == SelectSeq(value, IsDigit)
  IN IF digitsOnly # <<>> THEN digitsOnly ELSE toLowerCase(value)

IsNotSpaceNorDot(c) == ~IsSpace(c) /\ c # "."

\* isNumericExtension, lines 138-141
isNumericExtension(value) ==
  LET cleaned == SelectSeq(value, IsNotSpaceNorDot)
  IN Len(cleaned) > 0 /\ \A i \in DOMAIN cleaned : IsDigit(cleaned[i])

\* the number of whitespace characters of s from position i (1-based) on
RECURSIVE SpaceRun(_, _)
SpaceRun(s, i) ==
  IF i <= Len(s) /\ IsSpace(s[i]) THEN 1 + SpaceRun(s, i + 1) ELSE 0

\* The length of the match of the separator expression of line 144 at
\* position i of s, 0 when it does not match there.  The alternatives are
\* tried in their order: \s*\/\s*, \s*;\s*, \s*\|\s*, \r?\n, \s+-\s+.
SeparatorAt(s, i) ==
  LET lead == SpaceRun(s, i)
      j == i + lead
  IN IF j <= Len(s) /\ s[j] \in {"/", ";", "|"}
       THEN lead + 1 + SpaceRun(s, j + 1)
     ELSE IF s[i] = "\r" /\ i + 1 <= Len(s) /\ s[i + 1] = "\n" THEN 2
     ELSE IF s[i] = "\n" THEN 1
     ELSE IF lead >= 1 /\ j <= Len(s) /\ s[j] = "-" /\ SpaceRun(s, j + 1) >= 1
       THEN lead + 1 + SpaceRun(s, j + 1)
     ELSE 0

\* String.prototype.split with that expression: i scans s, start is where
\* the current piece began
RECURSIVE SplitFrom(_, _, _)
SplitFrom(s, start, i) ==
  IF i > Len(s) THEN <<SubSeq(s, start, Len(s))>>
  ELSE LET n == SeparatorAt(s, i)
       IN IF n > 0
            THEN <<SubSeq(s, start, i - 1)>> \o SplitFrom(s, i + n, i + n)
            ELSE SplitFrom(s, start, i + 1)

IsNonEmptyText(s) == s # <<>>

\* The name cell is one name
splitNames_Whole(value) == SelectSeq(<<trim(value)>>, IsNonEmptyText)

\* splitNames, lines 143-146
splitNames(value) ==
  LET pieces == SplitFrom(value, 1, 1)
  IN SelectSeq([k \in DOMAIN pieces |-> trim(pieces[k])], IsNonEmptyText)

\* uniqueIndices, lines 205-217
RECURSIVE uniqueIndices(_)
uniqueIndices(indices) ==
  IF indices = <<>> THEN <<>>
  ELSE LET front == uniqueIndices(SubSeq(indices, 1, Len(indices) - 1))
           idx == indices[Len(indices)]
       IN IF idx < 0 \/ idx \in Range(front) THEN front ELSE Append(front, idx)

\* lines 257-261
ExtensionIndices(columnMap) ==
  uniqueIndices(<<columnMap.extensionIndex, DEFAULT_COLUMN_INDICES.extension, 0>>)

\* lines 262-266
NameIndices(columnMap) ==
  uniqueIndices(<<columnMap.nameIndex, DEFAULT_COLUMN_INDICES.name,
                  DEFAULT_COLUMN_INDICES.title>>)

\* lines 267-271
DepartmentIndices(columnMap) ==
  uniqueIndices(<<columnMap.departmentIndex, DEFAULT_COLUMN_INDICES.department,
                  DEFAULT_COLUMN_INDICES.title>>)

\* pickCellText, lines 219-226
RECURSIVE pickCellText(_, _)
pickCellText(row, indices) ==
  IF indices = <<>> THEN <<>>
  ELSE LET idx == Head(indices)
       IN IF idx < 0 \/ idx >= Len(row) THEN pickCellText(row, Tail(indices))
          ELSE IF normalizeCellValue(row[idx + 1]) # <<>>
            THEN normalizeCellValue(row[idx + 1])
          ELSE pickCellText(row, Tail(indices))

\* No row ends the walk
shouldStopProcessing_Never(values, hasName, hasNumericExtension) == FALSE

\* shouldStopProcessing, lines 228-235
shouldStopProcessing(values, hasName, hasNumericExtension) ==
  IF hasName \/ hasNumericExtension THEN FALSE
  ELSE \E k \in DOMAIN values :
         /\ values[k] # <<>>
         /\ LET normalized == cachedNormalizeText(values[k])
            IN /\ Len(normalized) > 0
               /\ \E token \in STOP_TOKEN_NORMALIZED : includes(normalized, token)

\* line 247: !cell || cell === "" || cell === 0
IsBlankCell(cell) ==
  \/ cell.type = "null"
  \/ cell.type = "string" /\ cell.text = <<>>
  \/ cell.type = "number" /\ cell.text = <<"0">>

\* lines 249-255: the row repeats a header
IsRepeatedHeader(row) ==
  LET normalizedRow ==
        [k \in DOMAIN row |-> cachedNormalizeText(normalizeCellValue(row[k]))]
      headerHasName ==
        \E k \in DOMAIN row : matchesHeaderToken(normalizedRow[k], HEADER_TOKENS.name)
      headerHasExtension ==
        \E k \in DOMAIN row : matchesHeaderToken(normalizedRow[k], HEADER_TOKENS.extension)
      headerHasDepartment ==
        \E k \in DOMAIN row : matchesHeaderToken(normalizedRow[k], HEADER_TOKENS.department)
  IN headerHasName /\ (headerHasExtension \/ headerHasDepartment)

\* lines 273-280
RowFields(row, columnMap) ==
  LET extensionRaw == pickCellText(row, ExtensionIndices(columnMap))
      nameRaw == pickCellText(row, NameIndices(columnMap))
      departmentRaw == pickCellText(row, DepartmentIndices(columnMap))
      extensionValue ==
        IF extensionRaw # <<>> THEN normalizeExtensionValue(extensionRaw) ELSE <<>>
  IN [extensionRaw |-> extensionRaw,
      nameRaw |-> nameRaw,
      departmentRaw |-> departmentRaw,
      extensionValue |-> extensionValue,
      hasName |-> Len(nameRaw) > 0,
      hasExtension |-> Len(extensionValue) > 0,
      hasNumericExtension |->
        IF extensionRaw # <<>> THEN isNumericExtension(extensionRaw) ELSE FALSE]

\* lines 298-303
KeepName(name) ==
  /\ name # <<>>
  /\ ~includes(toLowerCase(name), <<"a", "c", "a", "l", "a", "n", "d", "r", "a", "@", "s", "e", "r", "v", "i", "c", "o", "o", "p", ".", "c", "o", "m">>)
  /\ ~includes(toLowerCase(name), <<"s", "e", "c", "t", "o", "r", " ", "c", "o", "m", "u", "n", "i", "c", "a", "c", "i", "o", "n", "e", "s", " ", "a", "l", " ", "i", "n", "t", "e", "r", "n", "o">>)
  /\ Len(trim(name)) > 0

\* A row without a name gives no name
FilteredNames_NoPlaceholder(fields) ==
  SelectSeq(IF fields.hasName THEN splitNames(fields.nameRaw) ELSE <<>>, KeepName)

\* lines 288-303
FilteredNames(fields) ==
  LET names == IF fields.hasName THEN splitNames(fields.nameRaw)
               ELSE <<<<"S", "i", "n", " ", "N", "o", "m", "b", "r", "e">>>>
  IN SelectSeq(names, KeepName)

\* String(id)
RECURSIVE DecimalDigits(_)
DecimalDigits(n) ==
  LET d == <<"0", "1", "2", "3", "4", "5", "6", "7", "8", "9">>[(n % 10) + 1]
  IN IF n < 10 THEN <<d>> ELSE Append(DecimalDigits(n \div 10), d)

\* A record without the placeholder of a missing extension
PersonnelRecord_NoPlaceholder(id, name, department, extensionValue) ==
  [id |-> DecimalDigits(id),
   name |-> name,
   department |-> department,
   extension |-> extensionValue,
   searchableName |-> cachedNormalizeText(name),
   searchableExtension |-> normalizeExtensionSearch(extensionValue)]

\* lines 308-315: one record
PersonnelRecord(id, name, department, extensionValue) ==
  [id |-> DecimalDigits(id),
   name |-> name,
   department |-> department,
   extension |-> IF extensionValue # <<>> THEN extensionValue ELSE <<"N", "/", "A">>,
   searchableName |-> cachedNormalizeText(name),
   searchableExtension |-> normalizeExtensionSearch(extensionValue)]

\* lines 296 and 307-316: the records of one row, the first with id
RowRecords(fields, id) ==
  LET filteredNames == FilteredNames(fields)
      department == IF fields.departmentRaw # <<>> THEN fields.departmentRaw
                    ELSE <<"S", "e", "c", "t", "o", "r", " ", "s", "i", "n", " ", "i", "d", "e", "n", "t", "i", "f", "i", "c", "a", "r">>
  IN [k \in DOMAIN filteredNames |->
        PersonnelRecord(id + k - 1, filteredNames[k], department, fields.extensionValue)]

\* the for loop of lines 244-318 from row i (0-based) on; acc is personnel
RECURSIVE WalkRows(_, _, _, _)
WalkRows(rows, i, columnMap, acc) ==
  IF i >= Len(rows) THEN acc
  ELSE LET row == rows[i + 1]
           fields == RowFields(row, columnMap)
           rowValues == [k \in DOMAIN row |-> normalizeCellValue(row[k])]
       IN IF \A k \in DOMAIN row : IsBlankCell(row[k])
            THEN WalkRows(rows, i + 1, columnMap, acc)
          ELSE IF IsRepeatedHeader(row)
            THEN WalkRows(rows, i + 1, columnMap, acc)
          ELSE IF shouldStopProcessing(rowValues, fields.hasName,
                                       fields.hasNumericExtension)
            THEN acc
          ELSE IF fields.hasName \/ fields.hasExtension
            THEN WalkRows(rows, i + 1, columnMap,
                          acc \o RowRecords(fields, Len(acc) + 1))
          ELSE WalkRows(rows, i + 1, columnMap, acc)

\* line 242
DataStartIndex(headerRowIndex) ==
  IF headerRowIndex >= 0 THEN headerRowIndex + 1 ELSE 0

\* processExcelData, lines 237-321
processExcelData(rows) ==
  LET detected == detectHeaderMapping(rows)
  IN WalkRows(rows, DataStartIndex(detected.headerRowIndex), detected.columnMap, <<>>)

\* personnel before processExcelData has run
NoPersonnel == <<[id |-> <<>>]>>

\* The grids processExcelData is run on: no header row or a header row, then
\* up to MaxDataRows rows of DataRowPool.
MaxDataRows == 2

HeaderChoices ==
  { <<>>,
    << <<Str(<<"A", "P", "E", "L", "L", "I", "D", "O", " ", "Y", " ", "N", "O", "M", "B", "R", "E">>), Str(<<"S", "E", "C", "T", "O", "R">>), Str(<<"I", "N", "T", "E", "R", "N", "O">>)>> >> }

DataRowPool ==
  { <<Str(<<"P", "e", "r", "e", "z", ",", " ", "J", "u", "a", "n", " ", "/", " ", "G", "o", "m", "e", "z", ",", " ", "A", "n", "a">>), Str(<<"V", "e", "n", "t", "a", "s">>), Num(<<"1", "0", "1">>)>>,
    <<Str(<<"L", "o", "p", "e", "z", ",", " ", "A", "n", "a">>), Str(<<"C", "o", "m", "p", "r", "a", "s">>), Str(<<>>)>>,
    <<NullCell, Str(<<"1", "0", "2", ".", "0">>), Str(<<"V", "e", "n", "t", "a", "s">>), Str(<<"J", "e", "f", "e">>), Str(<<"P", "e'", "r", "e", "z", ",", " ", "J", "o", "s", "e'", " ", "-", " ", "R", "u", "i", "z", ",", " ", "E", "v", "a">>)>>,
    <<Str(<<>>), NullCell, Str(<<"C", "o", "m", "p", "r", "a", "s">>), NullCell, Str(<<"R", "e", "y", ",", " ", "L", "u", "i", "s">>)>>,
    <<Num(<<"0">>), Str(<<"I", "n", "t", ".", " ", "1", "0", "5">>), Str(<<"D", "e", "p", "o'", "s", "i", "t", "o">>)>>,
    <<Str(<<"T", "E", "L", "E", "F", "O", "N", "O", "S", " ", "I", "N", "T", "E", "R", "N", "O", "S", " ", "R", "E", "S", "E", "R", "V", "A", " ", "6", "0", "0", "0">>)>>,
    <<Str(<<>>), Str(<<"R", "E", "S", "E", "R", "V", "A", " ", "6", "0", "0", "0">>)>>,
    <<Str(<<>>),
      Str(<<"R", "e", "s", "e", "r", "v", "a", " ", "6", "0", "0", "0", " ", "-", " ", "c", "o", "n", "t", "a", "c", "t", "o", " ", "i", "n", "t", "e", "r", "n", "o">>)>>,
    <<NullCell, Str(<<"N", "/", "A">>), Str(<<"V", "e", "n", "t", "a", "s">>), NullCell, Str(<<"D", "i", "a", "z", ",", " ", "E", "v", "a">>)>>,
    <<Str(<<"P", "a", "z", ";", "G", "i", "l", " ", "|", " ", "S", "o", "l", "\n", "R", "e", "y">>), Str(<<"C", "o", "m", "p", "r", "a", "s">>), Num(<<"1", "0", "4">>)>>,
    <<Str(<<".", ".", ".">>), Str(<<>>), Str(<<>>), NullCell, Str(<<"-">>)>>,
    <<Str(<<>>), Num(<<"0">>), NullCell>> }

DataBodies == UNION {[1..n -> DataRowPool] : n \in 0..MaxDataRows}

Sheets == {header \o body : header \in HeaderChoices, body \in DataBodies}

\* line 232: the calls shouldStopProcessing makes on values[k].., up to the
\* first value that holds a stop phrase
RECURSIVE StopCalls(_, _)
StopCalls(values, k) ==
  IF k > Len(values) THEN <<>>
  ELSE IF values[k] = <<>> THEN StopCalls(values, k + 1)
  ELSE LET normalized == cachedNormalizeText(values[k])
       IN <<values[k]>> \o
          (IF /\ Len(normalized) > 0
              /\ \E token \in STOP_TOKEN_NORMALIZED : includes(normalized, token)
             THEN <<>>
             ELSE StopCalls(values, k + 1))

\* lines 251, 232 and 313: the calls of cachedNormalizeText the for loop
\* makes from row i on
RECURSIVE WalkCalls(_, _, _)
WalkCalls(rows, i, columnMap) ==
  IF i >= Len(rows) THEN <<>>
  ELSE LET row == rows[i + 1]
           fields == RowFields(row, columnMap)
           rowValues == [k \in DOMAIN row |-> normalizeCellValue(row[k])]
       IN IF \A k \in DOMAIN row : IsBlankCell(row[k])
            THEN WalkCalls(rows, i + 1, columnMap)
          ELSE IF IsRepeatedHeader(row)
            THEN rowValues \o WalkCalls(rows, i + 1, columnMap)
          ELSE LET stopCalls ==
                     IF fields.hasName \/ fields.hasNumericExtension THEN <<>>
                     ELSE StopCalls(rowValues, 1)
               IN IF shouldStopProcessing(rowValues, fields.hasName,
                                          fields.hasNumericExtension)
                    THEN rowValues \o stopCalls
                  ELSE rowValues \o stopCalls
                         \o (IF fields.hasName \/ fields.hasExtension
                               THEN FilteredNames(fields) ELSE <<>>)
                         \o WalkCalls(rows, i + 1, columnMap)

\* the calls of cachedNormalizeText processExcelData makes, in their order
NormalizerCalls(rows) ==
  LET detected == detectHeaderMapping(rows)
  IN DetectCalls(rows)
       \o WalkCalls(rows, DataStartIndex(detected.headerRowIndex), detected.columnMap)

Extract ==
  /\ personnel = NoPersonnel
  /\ personnel' = processExcelData(sheet)
  /\ textNormalizationCache' =
       MemoAfterCalls(textNormalizationCache, NormalizerCalls(sheet))
  /\ UNCHANGED sheet
  /\ UNCHANGED <<cacheVars, headerVars, searchVars, memoVars, pageVars>>

----------------------------------------------------------------------------
(* Part 4: search (SearchSpec), src/unnamed/part_005 *)

\* String.prototype.split(" ")
RECURSIVE splitOnSpace(_)
splitOnSpace(s) ==
  IF \A i \in DOMAIN s : s[i] # " " THEN <<s>>
  ELSE LET k == CHOOSE i \in DOMAIN s : s[i] = " " /\ \A j \in 1..(i - 1) : s[j] # " "
       IN <<SubSeq(s, 1, k - 1)>> \o splitOnSpace(SubSeq(s, k + 1, Len(s)))

\* String.prototype.startsWith
startsWith(word, term) ==
  Len(term) <= Len(word) /\ SubSeq(word, 1, Len(term)) = term

\* The surname is the first token even when the name has a comma
normalizeApellido_FirstTokenOnly(nombre) ==
  IF nombre = <<>> THEN <<>>
  ELSE LET base == splitOnSpace(nombre)[1]
       IN cachedNormalizeText(IF base # <<>> THEN base ELSE nombre)

\* normalizeApellido, lines 90-95
normalizeApellido(nombre) ==
  IF nombre = <<>> THEN <<>>
  ELSE LET base ==
             IF "," \in Range(nombre)
               THEN SubSeq(nombre, 1, IndexOf(nombre, ",") - 1)
               ELSE splitOnSpace(nombre)[1]
       IN cachedNormalizeText(IF base # <<>> THEN base ELSE nombre)

\* lines 101-104 and 522-530: every term begins or equals one of the words
StartsWithAll(words, searchTerms) ==
  \A t \in DOMAIN searchTerms :
    \E w \in DOMAIN words :
      startsWith(words[w], searchTerms[t]) \/ words[w] = searchTerms[t]

\* lines 107 and 547-549: every term is a substring of the searchable name
IncludesAll(person, searchTerms) ==
  \A t \in DOMAIN searchTerms : includes(person.searchableName, searchTerms[t])

\* computeSearchScore, lines 97-111
computeSearchScore(person, normalizedQuery, searchTerms) ==
  LET apellido == normalizeApellido(person.name)
      words == SelectSeq(splitOnSpace(person.searchableName), IsNonEmptyText)
  IN IF apellido # <<>> /\ normalizedQuery = apellido THEN 3
     ELSE IF StartsWithAll(words, searchTerms) THEN 2
     ELSE IF IncludesAll(person, searchTerms) THEN 1
     ELSE 0

\* The order of the characters in String.prototype.localeCompare: spaces
\* and punctuation, then digits, then letters
CollationOrder ==
  <<" ", "_", "-", ",", ";", ":", "!", "?", ".", "'", "(", ")", "@", "*", "/", "&", "#">>
    \o <<"0", "1", "2", "3", "4", "5", "6", "7", "8", "9">> \o LowerLetters

PrimaryWeight(c) ==
  IF StripMark(LowerChar(c)) \in Range(CollationOrder)
    THEN IndexOf(CollationOrder, StripMark(LowerChar(c)))
    ELSE 0

\* an accented letter sorts after the plain one
SecondaryWeight(c) == IF c \in Range(LowerAccented) \cup Range(UpperAccented) THEN 1 ELSE 0

\* a capital sorts after the small letter
TertiaryWeight(c) == IF c \in Range(UpperLetters) \cup Range(UpperAccented) THEN 1 ELSE 0

\* sequences of weights compared from the left: -1, 0 or 1
RECURSIVE CompareWeights(_, _)
CompareWeights(a, b) ==
  IF a = <<>> /\ b = <<>> THEN 0
  ELSE IF a = <<>> THEN -1
  ELSE IF b = <<>> THEN 1
  ELSE IF Head(a) < Head(b) THEN -1
  ELSE IF Head(a) > Head(b) THEN 1
  ELSE CompareWeights(Tail(a), Tail(b))

\* String.prototype.localeCompare: letters first, then accents, then case
localeCompare(a, b) ==
  LET primary == CompareWeights([i \in DOMAIN a |-> PrimaryWeight(a[i])],
                                [i \in DOMAIN b |-> PrimaryWeight(b[i])])
      secondary == CompareWeights([i \in DOMAIN a |-> SecondaryWeight(a[i])],
                                  [i \in DOMAIN b |-> SecondaryWeight(b[i])])
      tertiary == CompareWeights([i \in DOMAIN a |-> TertiaryWeight(a[i])],
                                 [i \in DOMAIN b |-> TertiaryWeight(b[i])])
  IN IF primary # 0 THEN primary
     ELSE IF secondary # 0 THEN secondary
     ELSE tertiary

\* The comparison of two records of a group by name alone
ComparePersonnel_NameOnly(a, b) == localeCompare(a.name, b.name)

\* lines 478-482: the comparison of two records of a group
ComparePersonnel(a, b) ==
  LET scoreDiff == b.searchScore - a.searchScore
  IN IF scoreDiff # 0 THEN scoreDiff ELSE localeCompare(a.name, b.name)

\* lines 486-490: the comparison of two groups
CompareGroups(a, b) ==
  LET scoreDiff == b.maxScore - a.maxScore
  IN IF scoreDiff # 0 THEN scoreDiff ELSE localeCompare(a.department, b.department)

\* Array.prototype.sort is stable: x, which came after everything in sorted,
\* goes before the first element that must follow it
RECURSIVE InsertPerson(_, _)
InsertPerson(sorted, x) ==
  IF sorted = <<>> THEN <<x>>
  ELSE IF ComparePersonnel(Head(sorted), x) > 0 THEN <<x>> \o sorted
  ELSE <<Head(sorted)>> \o InsertPerson(Tail(sorted), x)

\* line 478: [...personnel].sort
RECURSIVE SortPersonnel(_)
SortPersonnel(s) ==
  IF s = <<>> THEN <<>>
  ELSE InsertPerson(SortPersonnel(SubSeq(s, 1, Len(s) - 1)), s[Len(s)])

RECURSIVE InsertGroup(_, _)
InsertGroup(sorted, x) ==
  IF sorted = <<>> THEN <<x>>
  ELSE IF CompareGroups(Head(sorted), x) > 0 THEN <<x>> \o sorted
  ELSE <<Head(sorted)>> \o InsertGroup(Tail(sorted), x)

\* line 486: .sort
RECURSIVE SortGroups(_)
SortGroups(s) ==
  IF s = <<>> THEN <<>>
  ELSE InsertGroup(SortGroups(SubSeq(s, 1, Len(s) - 1)), s[Len(s)])

\* lines 467-474: the keys of grouped in the order they were first set
RECURSIVE DepartmentKeys(_)
DepartmentKeys(rs) ==
  IF rs = <<>> THEN <<>>
  ELSE LET front == DepartmentKeys(SubSeq(rs, 1, Len(rs) - 1))
           department == rs[Len(rs)].department
       IN IF department \in Range(front) THEN front ELSE Append(front, department)

\* lines 467-474: grouped[department]
GroupedUnder(rs, department) ==
  LET InDepartment(person) == person.department = department
  IN SelectSeq(rs, InDepartment)

\* groupResultsByDepartment, lines 466-492
groupResultsByDepartment(rs) ==
  LET keys == DepartmentKeys(rs)
      entries ==
        [k \in DOMAIN keys |->
           LET sortedPersonnel == SortPersonnel(GroupedUnder(rs, keys[k]))
           IN [department |-> keys[k],
               personnel |-> sortedPersonnel,
               maxScore |-> sortedPersonnel[1].searchScore]]
      ordered == SortGroups(entries)
  IN [k \in DOMAIN ordered |->
        [department |-> ordered[k].department, personnel |-> ordered[k].personnel]]

\* lines 532-540: addResults, seen being the ids of results
RECURSIVE addResults(_, _)
addResults(acc, items) ==
  IF items = <<>> THEN acc
  ELSE IF \E k \in DOMAIN acc : acc[k].id = Head(items).id
    THEN addResults(acc, Tail(items))
  ELSE addResults(Append(acc, Head(items)), Tail(items))

\* line 504
SearchTerms(normalizedQuery) ==
  SelectSeq(splitOnSpace(normalizedQuery), IsNonEmptyText)

IsNotSpace(c) == ~IsSpace(c)

\* line 505
NumericQuery(normalizedQuery) == SelectSeq(normalizedQuery, IsNotSpace)

\* line 506: /^\d+$/
IsNumericQuery(numericQuery) ==
  numericQuery # <<>> /\ \A i \in DOMAIN numericQuery : IsDigit(numericQuery[i])

\* The department matches are added whatever the number of terms
AddsDepartmentMatches_Always(departmentMatches, searchTerms) ==
  Len(departmentMatches) > 0

\* line 551
AddsDepartmentMatches(departmentMatches, searchTerms) ==
  Len(departmentMatches) > 0 /\ Len(searchTerms) = 1

\* The name matches are the exact matches alone
NameMatches_NoSharing(people, searchTerms) ==
  LET IsExact(person) == StartsWithAll(splitOnSpace(person.searchableName), searchTerms)
  IN SelectSeq(people, IsExact)

\* The expansion compares the extension found in the row: the records
\* without one share nothing
NameMatches_SharesFoundExtension(people, searchTerms) ==
  LET IsExact(person) == StartsWithAll(splitOnSpace(person.searchableName), searchTerms)
      exactMatches == SelectSeq(people, IsExact)
      matchingExtensions == {exactMatches[k].extension : k \in DOMAIN exactMatches}
      SharesExtension(person) ==
        \/ IsExact(person)
        \/ person.searchableExtension # <<>> /\ person.extension \in matchingExtensions
      IsFallback(person) == IncludesAll(person, searchTerms)
  IN IF Len(exactMatches) > 0
       THEN SelectSeq(people, SharesExtension)
       ELSE SelectSeq(people, IsFallback)

\* lines 521-549: what the name branch hands to addResults
NameMatches(people, searchTerms) ==
  LET IsExact(person) == StartsWithAll(splitOnSpace(person.searchableName), searchTerms)
      exactMatches == SelectSeq(people, IsExact)
      matchingExtensions == {exactMatches[k].extension : k \in DOMAIN exactMatches}
      SharesExtension(person) == person.extension \in matchingExtensions
      IsFallback(person) == IncludesAll(person, searchTerms)
  IN IF Len(exactMatches) > 0
       THEN SelectSeq(people, SharesExtension)
       ELSE SelectSeq(people, IsFallback)

\* lines 516-555: the else branch
NameDepartmentSearch(people, normalizedQuery, searchTerms) ==
  LET InDepartment(person) ==
        includes(cachedNormalizeText(person.department), normalizedQuery)
      departmentMatches == SelectSeq(people, InDepartment)
      named == addResults(<<>>, NameMatches(people, searchTerms))
  IN IF AddsDepartmentMatches(departmentMatches, searchTerms)
       THEN addResults(named, departmentMatches)
       ELSE named

\* The extension search looks for an extension equal to the digits
ExtensionSearch_Equal(people, numericQuery) ==
  LET HasExtension(person) == person.searchableExtension = numericQuery
  IN SelectSeq(people, HasExtension)

\* lines 511-514
ExtensionSearch(people, numericQuery) ==
  LET HasExtension(person) == includes(person.searchableExtension, numericQuery)
  IN SelectSeq(people, HasExtension)

\* lines 558-563: one result
SearchResult(person, normalizedQuery, searchTerms) ==
  [id |-> person.id,
   name |-> person.name,
   department |-> person.department,
   extension |-> person.extension,
   searchableName |-> person.searchableName,
   searchableExtension |-> person.searchableExtension,
   searchTerms |-> searchTerms,
   searchScore |-> computeSearchScore(person, normalizedQuery, searchTerms)]

\* filteredResults, lines 498-564
filteredResults(q, people) ==
  IF trim(q) = <<>> \/ Len(q) < 2 THEN <<>>
  ELSE LET normalizedQuery == cachedNormalizeText(trim(q))
           searchTerms == SearchTerms(normalizedQuery)
           numericQuery == NumericQuery(normalizedQuery)
           matchingPersonnel ==
             IF IsNumericQuery(numericQuery)
               THEN ExtensionSearch(people, numericQuery)
               ELSE NameDepartmentSearch(people, normalizedQuery, searchTerms)
       IN [k \in DOMAIN matchingPersonnel |->
             SearchResult(matchingPersonnel[k], normalizedQuery, searchTerms)]

\* results before the search has run
NoResults == <<[id |-> <<>>]>>

\* The record lists: up to MaxPeople different people of PeoplePool, each a
\* name, a department and the extension of the row, with the ids
\* processExcelData gives
MaxPeople == 3

PeoplePool ==
  { <<<<"J", "u", "a", "n", " ", "P", "e", "r", "e", "z">>, <<"V", "e", "n", "t", "a", "s">>, <<"1", "0", "1">>>>,
    <<<<"A", "n", "a", " ", "G", "o", "m", "e", "z">>, <<"V", "e", "n", "t", "a", "s">>, <<"1", "0", "1">>>>,
    <<<<"J", "o", "s", "e'", " ", "M", "a", "r", "t", "i'", "n", "e", "z">>, <<"C", "o", "m", "p", "r", "a", "s">>, <<"1", "0", "2">>>>,
    <<<<"S", "a", "n", " ", "M", "a", "r", "t", "i", "n", ",", " ", "L", "u", "i", "s">>, <<"D", "e", "p", "o", "s", "i", "t", "o">>, <<"1", "0", "3">>>>,
    <<<<"E", "v", "a", " ", "R", "u", "i", "z">>, <<"S", "u", "c", "u", "r", "s", "a", "l", " ", "S", "a", "n", " ", "M", "a", "r", "t", "i", "n">>, <<"1", "0", "3">>>>,
    <<<<"R", "e", "y", ",", " ", "A", "n", "a">>, <<"V", "e", "n", "t", "a", "s">>, <<>>>>,
    <<<<",", " ", "J", "u", "a", "n">>, <<"C", "o", "m", "p", "r", "a", "s">>, <<"1", "0", "1", "5">>>>,
    <<<<"?", " ", "L", "o", "p", "e", "z">>, <<"D", "e", "p", "o", "s", "i", "t", "o">>, <<>>>> }

PeopleChoices ==
  {c \in UNION {[1..n -> PeoplePool] : n \in 0..MaxPeople} :
     \A i, j \in DOMAIN c : i # j => c[i] # c[j]}

PersonnelLists ==
  {[k \in DOMAIN c |-> PersonnelRecord(k, c[k][1], c[k][2], c[k][3])] : c \in PeopleChoices}

Queries ==
  { <<>>, <<"5">>, <<" ", "a">>, <<" ", " ">>, <<"1", "0", "1">>, <<"1", "0", " ", "1">>, <<"p", "e", "r", "e", "z">>, <<"e", "z">>,
    <<"J", "O", "S", "E'">>, <<"j", "u", "a", "n">>, <<"r", "e", "y">>, <<"m", "a", "r", "t", "i", "n">>, <<"v", "e", "n", "t", "a", "s">>, <<"s", "a", "n", " ", "m", "a", "r", "t", "i", "n">>,
    <<"?", "?">>, <<"j", "o", "s", "e">>, <<"J", "o", "s", "e'">>, <<"e">>, <<"e", "+'">> }

\* A render: the two memos of lines 498-568
Search ==
  /\ results = NoResults
  /\ results' = filteredResults(query, allPersonnel)
  /\ groupedResults' = groupResultsByDepartment(results')
  /\ UNCHANGED <<allPersonnel, query>>
  /\ UNCHANGED <<cacheVars, headerVars, extractVars, memoVars, textNormalizationCache,
                 pageVars>>

----------------------------------------------------------------------------
(* Part 5: the memo table (MemoSpec).  A parse reads the table as it stands *)
(* when the parse starts: an entry written during the parse holds what a   *)
(* miss computes (lines 106 and 113), and an entry deleted during the      *)
(* parse is computed again.                                                *)

MaxParses == 2
MaxFillBlocks == 2
FillBlock == 520

\* texts cachedNormalizeText is called on one at a time
MemoTexts == {<<"J", "o", "s", "e'">>}

\* the texts of block number block of other cells: FillBlock texts no other
\* call uses
FillerKeys(block) ==
  [k \in 1..FillBlock |-> <<"#">> \o DecimalDigits(block * FillBlock + k)]

\* the grids parsed: no header row or a header row, then one row
MemoRows ==
  { <<NullCell, Str(<<"1", "0", "2", ".", "0">>), Str(<<"V", "e", "n", "t", "a", "s">>), Str(<<"J", "e", "f", "e">>), Str(<<"P", "e'", "r", "e", "z", ",", " ", "J", "o", "s", "e'", " ", "-", " ", "R", "u", "i", "z", ",", " ", "E", "v", "a">>)>>,
    <<Str(<<"L", "o", "p", "e", "z", ",", " ", "A", "n", "a">>), Str(<<"C", "o", "m", "p", "r", "a", "s">>), Str(<<>>)>> }

MemoSheets == {header \o <<row>> : header \in HeaderChoices, row \in MemoRows}

\* one call of cachedNormalizeText, lines 102-115
NormalizeCall(text) ==
  /\ returned' = <<[text |-> text, value |-> cachedNormalizeText(text)]>>
  /\ textNormalizationCache' = MemoAfterCall(textNormalizationCache, text)
  /\ UNCHANGED <<parseLog, fillers>>
  /\ UNCHANGED <<cacheVars, headerVars, extractVars, searchVars, pageVars>>

\* FillBlock calls of cachedNormalizeText on texts not seen before
FillCalls ==
  /\ fillers < MaxFillBlocks
  /\ textNormalizationCache' =
       MemoAfterCalls(textNormalizationCache, FillerKeys(fillers))
  /\ fillers' = fillers + 1
  /\ UNCHANGED <<parseLog, returned>>
  /\ UNCHANGED <<cacheVars, headerVars, extractVars, searchVars, pageVars>>

\* processExcelData on the grid, lines 237-321, with the table
MemoParse ==
  /\ Len(parseLog) < MaxParses
  /\ LET normalizerCalls == NormalizerCalls(sheet)
     IN /\ parseLog' =
             Append(parseLog,
                    [personnel |-> processExcelData(sheet),
                     size |-> Len(textNormalizationCache),
                     hits |-> Cardinality({k \in DOMAIN normalizerCalls :
                                MemoHas(textNormalizationCache, normalizerCalls[k])})])
        /\ textNormalizationCache' =
             MemoAfterCalls(textNormalizationCache, normalizerCalls)
  /\ UNCHANGED <<returned, fillers>>
  /\ UNCHANGED <<cacheVars, headerVars, extractVars, searchVars, pageVars>>

----------------------------------------------------------------------------
(* Part 6: the parsing worker (src/unnamed/part_004) *)

\* The number of messages posted to the worker.
MaxMessages == 2

\* part_004 lines 9-10
DIRECTORY_MAX_ROWS == 800
DIRECTORY_MAX_COLUMNS == 8

FirstOf(seq, n) == SubSeq(seq, 1, IF Len(seq) < n THEN Len(seq) ELSE n)

\* lines 46-50
clampRows(rows) ==
  LET kept == FirstOf(rows, DIRECTORY_MAX_ROWS)
  IN [i \in DOMAIN kept |-> FirstOf(kept[i], DIRECTORY_MAX_COLUMNS)]

\* The requestId of a message: a number, a string, or none at all.
NumberId(n) == [type |-> "number", n |-> n]
StringId(n) == [type |-> "string", n |-> n]
UndefinedId == [type |-> "undefined", n |-> 0]

RequestIds == {NumberId(1), NumberId(2), StringId(1), UndefinedId}

\* The blob of a message: none, a workbook with a grid of cells, or bytes
\* that are no workbook.
NoBlob == [kind |-> "none", rows |-> <<>>]
Workbook(rows) == [kind |-> "workbook", rows |-> rows]
CorruptBlob == [kind |-> "corrupt", rows |-> <<>>]

\* a row of nine cells whose ninth, beyond column H, holds a stop phrase
WideRow ==
  <<NullCell, NullCell, NullCell, NullCell, NullCell, NullCell, NullCell, NullCell,
    Str(<<"R", "E", "S", "E", "R", "V", "A", " ", "6", "0", "0", "0">>)>>

WorkerSheets ==
  { <<>>,
    << <<NullCell, Num(<<"1", "0", "2">>), Str(<<"V", "e", "n", "t", "a", "s">>), Str(<<"J", "e", "f", "e">>), Str(<<"R", "u", "i", "z", ",", " ", "J", "o", "s", "e'">>)>> >>,
    << WideRow,
       <<NullCell, Str(<<"N", "/", "A">>), Str(<<"C", "o", "m", "p", "r", "a", "s">>), NullCell, Str(<<"L", "o", "p", "e", "z", ",", " ", "A", "n", "a", " ", "/", " ", "R", "e", "y", ",", " ", "L", "u", "i", "s">>)>> >> }

Blobs == {NoBlob, CorruptBlob} \cup {Workbook(rows) : rows \in WorkerSheets}

\* event.data of the messages; a message without data reads as one with
\* neither field (line 257: event.data || {})
WorkerRequests == [requestId : RequestIds, blob : Blobs]

\* line 260: readXlsxFile(blob) resolves with the rows of the workbook or
\* rejects with the library's Error
readXlsxFileWeb(blob) ==
  IF blob.kind = "workbook"
    THEN [state |-> "rows", rows |-> blob.rows, isError |-> FALSE, message |-> ""]
    ELSE [state |-> "err", rows |-> <<>>, isError |-> TRUE,
          message |-> "the message of the library's Error"]

\* A guard that tests the blob alone
Accepts_AnyId(data) == data.blob.kind # "none"

\* line 258, negated: the message carries a blob and a requestId of type
\* number
Accepts(data) == data.blob.kind # "none" /\ data.requestId.type = "number"

\* lines 42-44
SuccessResponse(requestId, records) ==
  [requestId |-> requestId, type |-> "success", personnel |-> records, message |-> ""]
ErrorResponse(requestId, message) ==
  [requestId |-> requestId, type |-> "error", personnel |-> <<>>, message |-> message]

\* line 278
CaughtMessage(thrown) ==
  IF thrown.isError THEN thrown.message ELSE "Error al procesar el directorio"

\* lines 260-284 after the await: what the handler posts
WorkerResponseOf(requestId, read) ==
  IF read.state = "err"
    THEN ErrorResponse(requestId, CaughtMessage(read))
  ELSE IF Len(clampRows(read.rows)) = 0
    THEN ErrorResponse(requestId,
           CaughtMessage([isError |-> TRUE,
                          message |-> "No se encontraron datos en el archivo Excel"]))
  ELSE SuccessResponse(requestId, processExcelData(clampRows(read.rows)))

\* worker.postMessage of the page: a message is queued for the worker
PostRequest(data) ==
  /\ Len(inbox) < MaxMessages
  /\ inbox' = Append(inbox, data)
  /\ UNCHANGED <<handlers, outbox>>
  /\ UNCHANGED <<cacheVars, headerVars, extractVars, searchVars, memoVars,
                 textNormalizationCache, hookVars>>

\* lines 256-260: the next message is delivered; the handler returns at the
\* guard or calls readXlsxFile and awaits it.  requestId and blob are the
\* handler's own constants.
OnMessage ==
  /\ Len(handlers) < Len(inbox)
  /\ LET data == inbox[Len(handlers) + 1]
     IN handlers' = Append(handlers,
          [pc |-> IF Accepts(data) THEN "reading" ELSE "returned",
           requestId |-> data.requestId,
           blob |-> data.blob])
  /\ UNCHANGED <<inbox, outbox>>
  /\ UNCHANGED <<cacheVars, headerVars, extractVars, searchVars, memoVars,
                 textNormalizationCache, hookVars>>

\* lines 260-284: the promise of readXlsxFile settles, the handler resumes and
\* runs to its end.  by is the handler that posted, kept for the claims.
ReadSettles(h) ==
  /\ h \in DOMAIN handlers
  /\ handlers[h].pc = "reading"
  /\ handlers' = [handlers EXCEPT ![h].pc = "posted"]
  /\ outbox' = Append(outbox,
       [data |-> WorkerResponseOf(handlers[h].requestId,
                                  readXlsxFileWeb(handlers[h].blob)),
        by |-> h])
  /\ UNCHANGED inbox
  /\ UNCHANGED <<cacheVars, headerVars, extractVars, searchVars, memoVars,
                 textNormalizationCache, hookVars>>

----------------------------------------------------------------------------
(* Part 7: the hook of the page, loadData (src/unnamed/part_005) *)

\* The number of calls of loadData.
MaxLoads == 3

LoadIds == 1..MaxLoads

\* the state variable error: null or a text
NullError == [set |-> FALSE, text |-> <<>>]
ErrorText(text) == [set |-> TRUE, text |-> text]
\* the truth value of error in a condition: null and the empty text are false
Truthy(error) == error.set /\ error.text # <<>>

\* lines 262-267
InitialHook ==
  [isLoading |-> FALSE, error |-> NullError, dataLoaded |-> FALSE,
   isRetryableError |-> TRUE]

\* What the fetch of /internos.xlsx meets.  rejects: the promise of fetch
\* rejects with the browser's TypeError.  status: an answer that is not ok.
\* htmlType: an answer whose content type holds text/html.  emptyBytes: a
\* body of no bytes.  htmlBytes: a body whose first 200 bytes hold one of the
\* markers of lines 310-316.  undecodable: XLSX.read throws.  noSheets,
\* noWorksheet, noRows: the throws of lines 324, 332 and 345.  workbook: a
\* grid of rows.
FetchRejections ==
  { <<"F", "a", "i", "l", "e", "d", " ", "t", "o", " ", "f", "e", "t", "c", "h">>,
    <<"N", "e", "t", "w", "o", "r", "k", "E", "r", "r", "o", "r", " ", "w", "h", "e", "n", " ", "a", "t", "t", "e", "m", "p", "t", "i", "n", "g", " ", "t", "o", " ", "f", "e", "t", "c", "h", " ", "r", "e", "s", "o", "u", "r", "c", "e", ".">>,
    <<"L", "o", "a", "d", " ", "f", "a", "i", "l", "e", "d">> }

DecodeErrors == { <<"I", "n", "v", "a", "l", "i", "d", " ", "H", "T", "M", "L", ":", " ", "c", "o", "u", "l", "d", " ", "n", "o", "t", " ", "f", "i", "n", "d", " ", "<", "t", "a", "b", "l", "e", ">">> }

HookSheets ==
  { << <<NullCell, Num(<<"1", "0", "2">>), Str(<<"V", "e", "n", "t", "a", "s">>), Str(<<"J", "e", "f", "e">>), Str(<<"R", "u", "i", "z", ",", " ", "J", "o", "s", "e'">>)>> >> }

Source(kind, status, text, rows) ==
  [kind |-> kind, status |-> status, text |-> text, rows |-> rows]

Sources ==
  {Source("rejects", 0, text, <<>>) : text \in FetchRejections}
  \cup {Source("status", status, <<>>, <<>>) : status \in {404, 500}}
  \cup {Source(kind, 200, <<>>, <<>>) :
          kind \in {"htmlType", "emptyBytes", "htmlBytes", "noSheets", "noWorksheet", "noRows"}}
  \cup {Source("undecodable", 200, text, <<>>) : text \in DecodeErrors}
  \cup {Source("workbook", 200, <<>>, rows) : rows \in HookSheets}

NoSource == Source("none", 0, <<>>, <<>>)

\* a call of loadData: not made, returned at the guard, awaiting, or run to
\* its end
IdleLoad == [pc |-> "idle", source |-> NoSource]

\* the characters of /^[...]+$/ on line 242
FriendlyChars ==
  WordChars \cup {" ", "\t", "\n", "\r"} \cup Range(LowerAccented)
  \cup {"?'", "u:", "!'", ".", ",", ":", "!", "(", ")", "-"}

\* line 242
IsFriendly(text) == text # <<>> /\ \A i \in DOMAIN text : text[i] \in FriendlyChars

\* lines 285-346: what the try block throws, or nothing
NotThrown == [thrown |-> FALSE, message |-> <<>>]
Thrown(message) == [thrown |-> TRUE, message |-> message]

LoadThrows(source) ==
  IF source.kind = "rejects" THEN Thrown(source.text)
  ELSE IF source.kind = "status"
    THEN Thrown(<<"H", "T", "T", "P", " ">> \o DecimalDigits(source.status)
                \o <<":", " ", "N", "o", " ", "s", "e", " ", "p", "u", "d", "o", " ", "c", "a", "r", "g", "a", "r", " ", "e", "l", " ", "d", "i", "r", "e", "c", "t", "o", "r", "i", "o", " ", "i", "n", "t", "e", "r", "n", "o">>)
  ELSE IF source.kind = "htmlType"
    THEN Thrown(<<"E", "l", " ", "a", "r", "c", "h", "i", "v", "o", " ", "d", "e", "l", " ", "d", "i", "r", "e", "c", "t", "o", "r", "i", "o", " ", "n", "o", " ", "e", "s", "t", "a'", " ", "d", "i", "s", "p", "o", "n", "i", "b", "l", "e">>)
  ELSE IF source.kind = "emptyBytes"
    THEN Thrown(<<"E", "l", " ", "a", "r", "c", "h", "i", "v", "o", " ", "E", "x", "c", "e", "l", " ", "e", "s", "t", "a'", " ", "v", "a", "c", "i'", "o">>)
  ELSE IF source.kind = "htmlBytes"
    THEN Thrown(<<"E", "l", " ", "a", "r", "c", "h", "i", "v", "o", " ", "d", "e", "l", " ", "d", "i", "r", "e", "c", "t", "o", "r", "i", "o", " ", "n", "o", " ", "e", "s", "t", "a'", " ", "d", "i", "s", "p", "o", "n", "i", "b", "l", "e">>)
  ELSE IF source.kind = "undecodable" THEN Thrown(source.text)
  ELSE IF source.kind = "noSheets"
    THEN Thrown(<<"E", "l", " ", "a", "r", "c", "h", "i", "v", "o", " ", "E", "x", "c", "e", "l", " ", "n", "o", " ", "t", "i", "e", "n", "e", " ", "h", "o", "j", "a", "s", " ", "d", "e", " ", "c", "a'", "l", "c", "u", "l", "o">>)
  ELSE IF source.kind = "noWorksheet"
    THEN Thrown(<<"N", "o", " ", "s", "e", " ", "e", "n", "c", "o", "n", "t", "r", "o'", " ", "l", "a", " ", "h", "o", "j", "a", " ", "\"", "H", "o", "j", "a", "1", "\"">>)
  ELSE IF source.kind = "noRows" \/ source.rows = <<>>
    THEN Thrown(<<"N", "o", " ", "s", "e", " ", "e", "n", "c", "o", "n", "t", "r", "a", "r", "o", "n", " ", "d", "a", "t", "o", "s", " ", "e", "n", " ", "e", "l", " ", "a", "r", "c", "h", "i", "v", "o", " ", "E", "x", "c", "e", "l">>)
  ELSE NotThrown

Classified(message, isRetryable) == [message |-> message, isRetryable |-> isRetryable]

\* transformErrorMessage, lines 206-249, for an Error with that message
transformErrorMessage(original) ==
  LET message == toLowerCase(original)
  IN IF includes(message, <<"h", "t", "t", "p", " ", "4", "0", "4">>) \/ includes(message, <<"n", "o", "t", " ", "f", "o", "u", "n", "d">>)
       THEN Classified(<<"N", "o", " ", "s", "e", " ", "e", "n", "c", "o", "n", "t", "r", "o'", " ", "e", "l", " ", "a", "r", "c", "h", "i", "v", "o", " ", "d", "e", "l", " ", "d", "i", "r", "e", "c", "t", "o", "r", "i", "o", " ", "i", "n", "t", "e", "r", "n", "o">>, FALSE)
     ELSE IF includes(message, <<"n", "o", " ", "e", "s", "t", "a'", " ", "d", "i", "s", "p", "o", "n", "i", "b", "l", "e">>)
             \/ includes(message, <<"a", "r", "c", "h", "i", "v", "o", " ", "d", "e", "l", " ", "d", "i", "r", "e", "c", "t", "o", "r", "i", "o", " ", "n", "o", " ", "e", "s", "t", "a'", " ", "d", "i", "s", "p", "o", "n", "i", "b", "l", "e">>)
       THEN Classified(<<"E", "r", "r", "o", "r", " ", "a", "l", " ", "c", "a", "r", "g", "a", "r", " ", "e", "l", " ", "d", "i", "r", "e", "c", "t", "o", "r", "i", "o">>, FALSE)
     ELSE IF includes(message, <<"n", "e", "t", "w", "o", "r", "k">>) \/ includes(message, <<"f", "e", "t", "c", "h">>)
             \/ includes(message, <<"c", "o", "n", "n", "e", "c", "t", "i", "o", "n">>)
       THEN Classified(<<"E", "r", "r", "o", "r", " ", "d", "e", " ", "c", "o", "n", "e", "x", "i", "o'", "n", " ", "a", "l", " ", "c", "a", "r", "g", "a", "r", " ", "e", "l", " ", "d", "i", "r", "e", "c", "t", "o", "r", "i", "o">>, TRUE)
     ELSE IF includes(message, <<"x", "l", "s", "x">>) \/ includes(message, <<"e", "x", "c", "e", "l">>)
             \/ includes(message, <<"p", "a", "r", "s", "e">>) \/ includes(message, <<"c", "o", "r", "r", "u", "p", "t">>)
             \/ includes(message, <<"i", "n", "v", "a", "l", "i", "d", " ", "h", "t", "m", "l">>) \/ includes(message, <<"<", "t", "a", "b", "l", "e", ">">>)
       THEN Classified(<<"E", "r", "r", "o", "r", " ", "a", "l", " ", "p", "r", "o", "c", "e", "s", "a", "r", " ", "e", "l", " ", "d", "i", "r", "e", "c", "t", "o", "r", "i", "o">>, FALSE)
     ELSE IF includes(message, <<"v", "a", "c", "i'", "o">>) \/ includes(message, <<"e", "m", "p", "t", "y">>)
       THEN Classified(<<"E", "l", " ", "d", "i", "r", "e", "c", "t", "o", "r", "i", "o", " ", "e", "s", "t", "a'", " ", "v", "a", "c", "i'", "o">>, FALSE)
     ELSE IF includes(message, <<"h", "o", "j", "a">>) \/ includes(message, <<"s", "h", "e", "e", "t">>)
       THEN Classified(<<"E", "r", "r", "o", "r", " ", "a", "l", " ", "p", "r", "o", "c", "e", "s", "a", "r", " ", "e", "l", " ", "d", "i", "r", "e", "c", "t", "o", "r", "i", "o">>, FALSE)
     ELSE IF IsFriendly(original)
       THEN Classified(original, FALSE)
     ELSE Classified(<<"E", "r", "r", "o", "r", " ", "a", "l", " ", "c", "a", "r", "g", "a", "r", " ", "e", "l", " ", "d", "i", "r", "e", "c", "t", "o", "r", "i", "o">>, FALSE)

\* line 273, on the state values the closure holds
Skips(state) ==
  \/ state.isLoading
  \/ state.dataLoaded /\ ~Truthy(state.error)
  \/ Truthy(state.error) /\ ~state.isRetryableError

\* lines 270-285: loadData is called.  The function called is the one the
\* last render made.  It returns at the guard, or calls the four setters and
\* fetch and awaits the answer.
loadData(c) ==
  /\ loads[c].pc = "idle"
  /\ IF c = 1 THEN TRUE ELSE loads[c - 1].pc # "idle"
  /\ IF Skips(rendered)
       THEN /\ loads' = [loads EXCEPT ![c].pc = "returned"]
            /\ UNCHANGED hook
       ELSE /\ loads' = [loads EXCEPT ![c].pc = "fetching"]
            /\ hook' = [isLoading |-> TRUE, error |-> NullError,
                        dataLoaded |-> FALSE, isRetryableError |-> TRUE]
  /\ UNCHANGED rendered
  /\ UNCHANGED <<cacheVars, headerVars, extractVars, searchVars, memoVars,
                 textNormalizationCache, workerVars>>

\* React renders the component with the state the setters left: useCallback
\* makes a new loadData, its dependencies (line 362) having changed.
Render ==
  /\ rendered # hook
  /\ rendered' = hook
  /\ UNCHANGED <<hook, loads>>
  /\ UNCHANGED <<cacheVars, headerVars, extractVars, searchVars, memoVars,
                 textNormalizationCache, workerVars>>

\* lines 285-361: the fetch is answered and the call runs to its end; the
\* awaits of lines 301 and 320 lie between statements that touch no state.
\* The render asked for by the setters of lines 279-282 has happened by the
\* time the network answers.
LoadSettles(c, source) ==
  /\ loads[c].pc = "fetching"
  /\ rendered = hook
  /\ loads' = [loads EXCEPT ![c] = [pc |-> "done", source |-> source]]
  /\ LET caught == LoadThrows(source)
         friendly == transformErrorMessage(caught.message)
     IN IF caught.thrown
          THEN /\ hook' = [hook EXCEPT !.error = ErrorText(friendly.message),
                                       !.isRetryableError = friendly.isRetryable,
                                       !.isLoading = FALSE]
               /\ UNCHANGED allPersonnel
          ELSE /\ hook' = [hook EXCEPT !.dataLoaded = TRUE, !.isLoading = FALSE]
               /\ allPersonnel' = processExcelData(source.rows)
  /\ UNCHANGED <<rendered, query, results, groupedResults>>
  /\ UNCHANGED <<cacheVars, headerVars, extractVars, memoVars,
                 textNormalizationCache, workerVars>>

----------------------------------------------------------------------------

CacheInit ==
  /\ file \in [exists : BOOLEAN, mtimeMs : {1}, kind : FileKinds]
  /\ internosCache = [mtimeMs |-> 0, payload |-> NoPayload, inflight |-> 0,
                      lastError |-> NoError]
  /\ calls = [c \in CallIds |-> IdleCall]
  /\ pcMain = "warm"
  /\ response = NoResponse

\* header detection has not run
HeaderIdle == rawData = <<>> /\ mapping = NoMapping

\* processExcelData has not run
ExtractIdle == sheet = <<>> /\ personnel = NoPersonnel

\* no search has run
SearchIdle ==
  allPersonnel = <<>> /\ query = <<>> /\ results = NoResults /\ groupedResults = <<>>

\* the server before its first statement about the directory
CacheIdle ==
  /\ file = [exists |-> FALSE, mtimeMs |-> 1, kind |-> "ok"]
  /\ internosCache = [mtimeMs |-> 0, payload |-> NoPayload, inflight |-> 0,
                      lastError |-> NoError]
  /\ calls = [c \in CallIds |-> IdleCall]
  /\ pcMain = "warm"
  /\ response = NoResponse

\* the memo table as the module's load leaves it, nothing else done
MemoIdle ==
  /\ textNormalizationCache = MemoAtLoad
  /\ parseLog = <<>> /\ returned = <<>> /\ fillers = 0

\* no message has been posted to the worker
WorkerIdle == inbox = <<>> /\ handlers = <<>> /\ outbox = <<>>

\* the hook as its first render leaves it (part_005 lines 262-267), loadData
\* not called
HookIdle ==
  /\ hook = InitialHook
  /\ rendered = InitialHook
  /\ loads = [c \in LoadIds |-> IdleLoad]

\* nothing has run in the browser
PageIdle == WorkerIdle /\ HookIdle

Init == CacheInit /\ HeaderIdle /\ ExtractIdle /\ SearchIdle /\ MemoIdle /\ PageIdle

Next ==
  \/ \E c \in CallIds, force \in BOOLEAN : Invoke(c, force)
  \/ \E c \in CallIds : StatFailed(c)
  \/ \E c \in CallIds : CacheHit(c)
  \/ \E c \in CallIds : JoinInflight(c)
  \/ \E c \in CallIds : StartLoad(c)
  \/ \E c \in CallIds : ReadFile(c)
  \/ \E c \in CallIds : Settle(c)
  \/ \E kind \in FileKinds : Touch(kind)
  \/ Remove
  \/ Listen
  \/ GetInternos

Spec == Init /\ [][Next]_vars

\* The promise of readXlsxFile settles and the code awaiting it (lines 342 and
\* 356) is resumed: the read and the settling of a parse that has started
\* are not put off for ever.
FairSpec ==
  /\ Spec
  /\ \A c \in CallIds : WF_vars(ReadFile(c)) /\ WF_vars(Settle(c))

HeaderInit ==
  /\ CacheIdle /\ rawData \in Grids /\ mapping = NoMapping /\ ExtractIdle /\ SearchIdle
  /\ MemoIdle /\ PageIdle

HeaderNext == Detect

HeaderSpec == HeaderInit /\ [][HeaderNext]_vars

ExtractInit ==
  /\ CacheIdle /\ HeaderIdle /\ sheet \in Sheets /\ personnel = NoPersonnel /\ SearchIdle
  /\ MemoIdle /\ PageIdle

ExtractNext == Extract

ExtractSpec == ExtractInit /\ [][ExtractNext]_vars

SearchInit ==
  /\ CacheIdle /\ HeaderIdle /\ ExtractIdle /\ MemoIdle /\ PageIdle
  /\ allPersonnel \in PersonnelLists
  /\ query \in Queries
  /\ results = NoResults
  /\ groupedResults = <<>>

SearchNext == Search

SearchSpec == SearchInit /\ [][SearchNext]_vars

MemoInit ==
  /\ CacheIdle /\ HeaderIdle /\ SearchIdle
  /\ sheet \in MemoSheets /\ personnel = NoPersonnel
  /\ MemoIdle /\ PageIdle

MemoNext ==
  \/ \E text \in MemoTexts : NormalizeCall(text)
  \/ FillCalls
  \/ MemoParse

MemoSpec == MemoInit /\ [][MemoNext]_vars

HookInit ==
  /\ CacheIdle /\ HeaderIdle /\ ExtractIdle /\ SearchIdle /\ MemoIdle
  /\ PageIdle

HookNext ==
  \/ \E c \in LoadIds : loadData(c)
  \/ Render
  \/ \E c \in LoadIds, source \in Sources : LoadSettles(c, source)

HookSpec == HookInit /\ [][HookNext]_vars

WorkerInit ==
  /\ CacheIdle /\ HeaderIdle /\ ExtractIdle /\ SearchIdle /\ MemoIdle
  /\ PageIdle

WorkerNext ==
  \/ \E data \in WorkerRequests : PostRequest(data)
  \/ OnMessage
  \/ \E h \in 1..MaxMessages : ReadSettles(h)

\* the step of ReadSettles(h), told by the handler's position alone
Resumes(h) ==
  /\ h \in DOMAIN handlers
  /\ handlers[h].pc = "reading"
  /\ handlers' = [handlers EXCEPT ![h].pc = "posted"]

\* The event loop delivers a queued message, and the promise of readXlsxFile
\* settles and the handler awaiting it is resumed.
WorkerSpec ==
  /\ WorkerInit
  /\ [][WorkerNext]_vars
  /\ WF_vars(OnMessage)
  /\ \A h \in 1..MaxMessages : WF_handlers(Resumes(h))

----------------------------------------------------------------------------
(* Claims about the directory cache, checked under Spec *)

Done(c) == calls[c].pc = "done"
\* the invocation completes in this step
Completes(c) == calls[c].pc # "done" /\ calls'[c].pc = "done"
\* the invocation started a parse of its own
Parsed(c) == calls[c].pc = "loading" \/ calls[c].read # NoRead
\* the invocation's own parse succeeded
Succeeded(c) ==
  /\ Done(c)
  /\ calls[c].result.kind = "list"
  /\ calls[c].result.payload.by = c

\* C1: at most one decode/extraction pass is in progress at any time, and
\* two reload calls of which the second was issued before the first
\* completed do not both run a pass.
C1_SingleFlight ==
  /\ Cardinality({c \in CallIds : calls[c].pc = "loading"}) <= 1
  /\ \A a, b \in CallIds :
       (a # b /\ a \in calls[b].seen) => ~(Parsed(a) /\ Parsed(b))

\* C2: a reload that fails while a list is cached leaves the cached list and
\* its recorded modification time as they were.
C2_FailureKeepsSnapshot ==
  [][\A c \in CallIds :
       (/\ Completes(c)
        /\ calls'[c].result.kind = "error"
        /\ internosCache.payload # NoPayload)
       => /\ internosCache'.payload = internosCache.payload
          /\ internosCache'.mtimeMs = internosCache.mtimeMs]_vars

\* a parse failed after a list had been cached
C2_Witness ==
  /\ internosCache.payload # NoPayload
  /\ internosCache.lastError # NoError
  /\ Done(internosCache.lastError.by)

\* C3: a reload that completes while a list is cached hands its caller the
\* cached list, also when the reload failed.
C3_FailureServesCached ==
  [][\A c \in CallIds :
       (Completes(c) /\ internosCache.payload # NoPayload)
       => calls'[c].result = ListResult(internosCache'.payload)]_vars

\* C4 as claimed: no call returns a list parsed from content older than the
\* modification time the call observed, joined calls included.
C4_NeverOlderThanStat ==
  \A c \in CallIds :
    (Done(c) /\ calls[c].result.kind = "list")
    => calls[c].result.payload.version >= calls[c].stat.mtimeMs

\* C4 as amended: a call that is served from the cache or runs its own parse
\* never returns a list parsed from content older than the modification time
\* it observed.
C4_OwnResultNeverOlder ==
  \A c \in CallIds :
    (Done(c) /\ calls[c].result.kind = "list" /\ calls[c].joined = 0)
    => calls[c].result.payload.version >= calls[c].stat.mtimeMs

\* a call that saw the second modification time while the first content was
\* cached, and returned the second content
C4_Witness ==
  \E c \in CallIds :
    /\ Done(c)
    /\ calls[c].joined = 0
    /\ calls[c].stat.mtimeMs = 2
    /\ calls[c].result.kind = "list"
    /\ calls[c].result.payload.version = 2
    /\ \E d \in CallIds : Succeeded(d) /\ calls[d].result.payload.version = 1

\* C5: every reload that fails leaves its failure in lastError, and lastError
\* is cleared only by a reload that succeeds.
C5_FailureRecorded ==
  [][/\ \A c \in CallIds :
          (Completes(c) /\ calls'[c].result.kind = "error")
          => internosCache'.lastError = calls'[c].result.error
     /\ (internosCache.lastError # NoError /\ internosCache'.lastError = NoError)
          => \E c \in CallIds : Completes(c) /\ calls'[c].result.kind = "list"]_vars

\* C6: when every load so far failed because the file was missing and no
\* list is cached, the endpoint answers 404.
C6_MissingFileIs404 ==
  (/\ pcMain = "listening"
   /\ internosCache.payload = NoPayload
   /\ InProgress = {}
   /\ \A c \in CallIds : Done(c) => calls[c].result.error.code = "ENOENT")
  => InternosResponse(internosCache).status = 404

\* C7: with no parse in flight, a call that is not forced and finds a cached
\* list with the modification time it observed returns that list and starts
\* no parse; every other call starts a parse.
C7_ParseOnlyWhenStale ==
  [][\A c \in CallIds :
       (/\ calls[c].pc = "stat"
        /\ calls'[c].pc # "stat"
        /\ calls[c].stat.ok
        /\ internosCache.inflight = 0)
       => IF /\ ~calls[c].force
             /\ internosCache.payload # NoPayload
             /\ internosCache.mtimeMs = calls[c].stat.mtimeMs
            THEN /\ calls'[c].pc = "done"
                 /\ calls'[c].result = ListResult(internosCache.payload)
                 /\ internosCache' = internosCache
            ELSE /\ calls'[c].pc = "loading"
                 /\ internosCache' = [internosCache EXCEPT !.inflight = c]]_vars

\* one call was served from the cache and a forced call parsed again although
\* the modification time had not changed
C7_Witness ==
  \E c, d \in CallIds :
    /\ Done(c) /\ ~calls[c].force /\ calls[c].joined = 0
    /\ calls[c].result.kind = "list" /\ calls[c].result.payload.by # c
    /\ calls[d].force /\ Parsed(d)

\* C8: the step that installs a new list also installs the modification time
\* its parse was started for and clears lastError, so the cached list is
\* never seen with another modification time.
C8_AtomicInstall ==
  /\ [][internosCache'.payload # internosCache.payload
          => /\ internosCache'.lastError = NoError
             /\ internosCache'.inflight = 0
             /\ internosCache'.mtimeMs =
                  calls[internosCache'.payload.by].stat.mtimeMs]_vars
  /\ [](internosCache.payload # NoPayload
          => internosCache.mtimeMs =
               calls[internosCache.payload.by].stat.mtimeMs)

\* a list was installed over a recorded error
C8_Witness ==
  /\ internosCache.payload.by = 2
  /\ internosCache.lastError = NoError
  /\ calls[1].result.kind = "error"
  /\ Parsed(1)

SomeReloadSucceeded == \E c \in CallIds : Succeeded(c)

\* C9: whatever the warm load's outcome the top level goes on to listen, and
\* the endpoint answers with the cached list exactly when some reload has
\* succeeded and with an error status before.
C9_WarmFailureNotFatal ==
  /\ [][pcMain # pcMain' => (pcMain = "warm" /\ pcMain' = "listening")]_vars
  /\ [](pcMain = "listening" =>
          LET r == InternosResponse(internosCache)
          IN /\ SomeReloadSucceeded => (r.status = 200 /\ r.body = internosCache.payload)
             /\ ~SomeReloadSucceeded => (r.status \in {404, 503} /\ r.body = NoPayload))
  /\ [][response' # response =>
          /\ pcMain = "listening"
          /\ response'.status = 200 <=> SomeReloadSucceeded]_vars

\* the warm load failed, the server listens, and after a later reload
\* succeeded the endpoint answered with the list
C9_Witness ==
  /\ calls[1].result.kind = "error"
  /\ pcMain = "listening"
  /\ response.status = 200
  /\ response.body = internosCache.payload

\* the invocation's own parse failed
Failed(c) ==
  /\ Done(c)
  /\ Parsed(c)
  /\ calls[c].result.kind = "error"

\* C27: every parse that is started runs to completion or to failure; in
\* both cases the in-flight marker is cleared as the parse settles; the
\* marker is set only while a parse runs, so that a reload call finds it on a
\* running parse alone, never on a finished one.
C27_MarkerCleared ==
  /\ \A c \in CallIds : calls[c].pc = "loading" ~> Done(c)
  /\ [][\A c \in CallIds :
          calls[c].pc = "loading" /\ calls'[c].pc = "done"
            => internosCache'.inflight = 0]_vars
  /\ [](internosCache.inflight # 0 =>
          calls[internosCache.inflight].pc = "loading")
  /\ [][\A c \in CallIds :
          calls[c].pc = "stat" /\ calls'[c].pc = "joined"
            => calls[calls'[c].joined].pc = "loading"]_vars

\* a parse failed, the marker is clear and a later call runs a parse of its
\* own
C27_Witness ==
  \E a, b \in CallIds :
    /\ a < b
    /\ Failed(a)
    /\ a \notin calls[b].seen
    /\ calls[b].pc = "loading"
    /\ internosCache.inflight = b

----------------------------------------------------------------------------
(* Claims about header detection, checked under HeaderSpec *)

\* the cell's normalized text equals or contains a token of the dictionary
CellMatches(cell, tokens) ==
  LET n == normalizeText(normalizeCellValue(cell))
  IN \E t \in tokens : n = t \/ includes(n, t)

\* 0-based columns of the row whose cell matches the dictionary
MatchingColumns(row, tokens) ==
  {k \in 0..(Len(row) - 1) : CellMatches(row[k + 1], tokens)}

Lowest(S) == CHOOSE x \in S : \A y \in S : x <= y

FirstColumnOrMinus1(row, tokens) ==
  IF MatchingColumns(row, tokens) = {} THEN -1
  ELSE Lowest(MatchingColumns(row, tokens))

\* 0-based rows among the first 20 with a name match and an extension or a
\* department match
QualifyingRows(grid) ==
  {i \in 0..(Min(Len(grid), 20) - 1) :
     /\ MatchingColumns(grid[i + 1], HEADER_TOKENS.name) # {}
     /\ \/ MatchingColumns(grid[i + 1], HEADER_TOKENS.extension) # {}
        \/ MatchingColumns(grid[i + 1], HEADER_TOKENS.department) # {}}

\* C10: header detection returns the lowest qualifying row among the first
\* 20 with, per category, the first matching column of that row or -1; with
\* no qualifying row it returns -1 and the columns 1, 2, 3, 4.
C10_HeaderDetection ==
  mapping # NoMapping =>
    IF QualifyingRows(rawData) = {}
      THEN mapping = [headerRowIndex |-> -1,
                      columnMap |-> [extensionIndex |-> 1, departmentIndex |-> 2,
                                     titleIndex |-> 3, nameIndex |-> 4]]
      ELSE LET h == Lowest(QualifyingRows(rawData))
               row == rawData[h + 1]
           IN mapping =
                [headerRowIndex |-> h,
                 columnMap |->
                   [extensionIndex |-> FirstColumnOrMinus1(row, HEADER_TOKENS.extension),
                    departmentIndex |-> FirstColumnOrMinus1(row, HEADER_TOKENS.department),
                    titleIndex |-> FirstColumnOrMinus1(row, HEADER_TOKENS.title),
                    nameIndex |-> FirstColumnOrMinus1(row, HEADER_TOKENS.name)]]

\* the header is the last row of the scan window, after a row with a name
\* word only, and it has no title column
C10_Witness ==
  /\ mapping.headerRowIndex = 19
  /\ mapping.columnMap.titleIndex = -1
  /\ mapping.columnMap.nameIndex >= 0
  /\ Len(rawData) = 20
  /\ MatchingColumns(rawData[19], HEADER_TOKENS.name) # {}

----------------------------------------------------------------------------
(* Claims about row extraction (ExtractSpec) *)

\* processExcelData has run
Extracted == personnel # NoPersonnel

\* the rows the walk can reach, 0-based
WalkedRows ==
  {i \in 0..(Len(sheet) - 1) :
     i >= DataStartIndex(detectHeaderMapping(sheet).headerRowIndex)}

SheetFields(i) == RowFields(sheet[i + 1], detectHeaderMapping(sheet).columnMap)

\* some cell of row i, normalized, contains one of the two phrases
HasStopPhrase(i) ==
  \E k \in DOMAIN sheet[i + 1] :
    LET normalized == normalizeText(normalizeCellValue(sheet[i + 1][k]))
    IN \/ includes(normalized, <<"t", "e", "l", "e", "f", "o", "n", "o", "s", " ", "i", "n", "t", "e", "r", "n", "o", "s", " ", "r", "e", "s", "e", "r", "v", "a">>)
       \/ includes(normalized, <<"r", "e", "s", "e", "r", "v", "a", " ", "6", "0", "0", "0">>)

\* row i has no name, no numeric extension and a stop phrase
SentinelRow(i) ==
  /\ ~SheetFields(i).hasName
  /\ ~SheetFields(i).hasNumericExtension
  /\ HasStopPhrase(i)

\* the records of the rows before row i alone
RecordsBefore(i) == processExcelData(SubSeq(sheet, 1, i))

\* the records rows i+1.. would give were the walk to go on
RecordsAfter(i) ==
  WalkRows(sheet, i + 1, detectHeaderMapping(sheet).columnMap, <<>>)

\* C11, as stated: once the walk reaches a row with no name, no numeric
\* extension and a cell whose normalized text contains "telefonos internos
\* reserva" or "reserva 6000", that row and every later row contribute no
\* record: the output is the output of the rows before it.
C11_SentinelEndsWalk ==
  Extracted =>
    \A i \in WalkedRows : SentinelRow(i) => personnel = RecordsBefore(i)

\* C11, amended: the same for a sentinel row that is not skipped as a
\* repeated header (a row with a cell matching the name dictionary and a cell
\* matching the extension or department dictionary is skipped before the stop
\* test, and the walk goes on).
C11_SentinelNotHeaderEndsWalk ==
  Extracted =>
    \A i \in WalkedRows :
      SentinelRow(i) /\ ~IsRepeatedHeader(sheet[i + 1])
        => personnel = RecordsBefore(i)

\* a sentinel row stopped the walk before rows that hold records
C11_Witness ==
  /\ Extracted
  /\ \E i \in WalkedRows :
       /\ SentinelRow(i) /\ ~IsRepeatedHeader(sheet[i + 1])
       /\ RecordsAfter(i) # <<>>
       /\ personnel = RecordsBefore(i)

\* the records row i gave: personnel begins with the records of the rows
\* before row i, then come those of row i
RowRecordsOf(i) ==
  SubSeq(personnel, Len(RecordsBefore(i)) + 1, Len(RecordsBefore(i + 1)))

\* the same for every row at once: counts[i] is the number of records of the
\* rows before row i, fields[i] the fields of row i
RecordCounts == [i \in 0..Len(sheet) |-> Len(RecordsBefore(i))]

AllSheetFields ==
  LET columnMap == detectHeaderMapping(sheet).columnMap
  IN [i \in 0..(Len(sheet) - 1) |-> RowFields(sheet[i + 1], columnMap)]

RowRecordsAt(counts, i) == SubSeq(personnel, counts[i] + 1, counts[i + 1])

\* the cell of row i in the extension column header detection selected is empty
ExtensionColumnEmpty(i) ==
  pickCellText(sheet[i + 1], <<detectHeaderMapping(sheet).columnMap.extensionIndex>>) = <<>>

\* that column, column 1 and column 0 of row i are all empty
ExtensionChainEmpty(i) ==
  pickCellText(sheet[i + 1],
               <<detectHeaderMapping(sheet).columnMap.extensionIndex, 1, 0>>) = <<>>

DigitsElseLower(extension) ==
  IF \E k \in DOMAIN extension : extension[k] \in Digits
    THEN SelectSeq(extension, IsDigit)
    ELSE toLowerCase(extension)

\* C13, as stated: every emitted record has searchableName = the normalized
\* name, and searchableExtension = the digits of its extension when it holds a
\* digit and else the lower-cased extension, records with "N/A" included.
C13_SearchableFields ==
  Extracted =>
    \A k \in DOMAIN personnel :
      /\ personnel[k].searchableName = normalizeText(personnel[k].name)
      /\ personnel[k].searchableExtension = DigitsElseLower(personnel[k].extension)

\* C13, amended: the same, except that the records of a row in which no
\* extension was found carry the extension "N/A" and an empty
\* searchableExtension.
C13_SearchableFieldsOfFoundExtension ==
  Extracted =>
    LET counts == RecordCounts
        fields == AllSheetFields
    IN \A i \in WalkedRows :
         LET recs == RowRecordsAt(counts, i)
         IN \A k \in DOMAIN recs :
              LET r == recs[k]
              IN /\ r.searchableName = normalizeText(r.name)
                 /\ IF fields[i].extensionValue = <<>>
                      THEN r.extension = <<"N", "/", "A">> /\ r.searchableExtension = <<>>
                      ELSE r.searchableExtension = DigitsElseLower(r.extension)

\* a record whose extension holds digits among other characters and a
\* record of a row with no extension were emitted
C13_Witness ==
  /\ Extracted
  /\ \E k \in DOMAIN personnel :
       /\ \E d \in Digits : d \in Range(personnel[k].extension)
       /\ personnel[k].searchableExtension # personnel[k].extension
  /\ \E i \in WalkedRows :
       RowRecordsOf(i) # <<>> /\ SheetFields(i).extensionValue = <<>>

\* C14: no record is emitted for a split name whose normalized form is
\* empty: every emitted record has a non-empty searchableName.
C14_NonEmptySearchableName ==
  Extracted => \A k \in DOMAIN personnel : personnel[k].searchableName # <<>>

\* row i has no name, no numeric extension and a stop phrase
IsSentinel(fields, i) ==
  ~fields[i].hasName /\ ~fields[i].hasNumericExtension /\ HasStopPhrase(i)

\* the walk ended on a row before row i
StoppedBefore(fields, i) ==
  \E j \in WalkedRows :
    j < i /\ IsSentinel(fields, j) /\ ~IsRepeatedHeader(sheet[j + 1])

\* row i is taken as a data row: the walk reaches it, it is not blank, it
\* does not repeat the header and it does not end the walk
DataRow(fields, i) ==
  /\ i \in WalkedRows
  /\ \E k \in DOMAIN sheet[i + 1] : ~IsBlankCell(sheet[i + 1][k])
  /\ ~IsRepeatedHeader(sheet[i + 1])
  /\ ~IsSentinel(fields, i)
  /\ ~StoppedBefore(fields, i)

\* character i of s separates two names: "/", ";", "|", a line break, or a
\* hyphen between two spaces
IsNameSeparator(s, i) ==
  \/ s[i] \in {"/", ";", "|", "\n"}
  \/ s[i] = "-" /\ i > 1 /\ i < Len(s) /\ IsSpace(s[i - 1]) /\ IsSpace(s[i + 1])

RECURSIVE PiecesFrom(_, _, _)
PiecesFrom(s, start, i) ==
  IF i > Len(s) THEN <<SubSeq(s, start, Len(s))>>
  ELSE IF IsNameSeparator(s, i)
    THEN <<SubSeq(s, start, i - 1)>> \o PiecesFrom(s, i + 1, i + 1)
  ELSE PiecesFrom(s, start, i + 1)

\* the names a name cell holds, in cell order
CellNames(cell) ==
  LET pieces == PiecesFrom(cell, 1, 1)
  IN SelectSeq([k \in DOMAIN pieces |-> trim(pieces[k])], IsNonEmptyText)

IsBoilerplate(name) ==
  \/ includes(toLowerCase(name), <<"a", "c", "a", "l", "a", "n", "d", "r", "a", "@", "s", "e", "r", "v", "i", "c", "o", "o", "p", ".", "c", "o", "m">>)
  \/ includes(toLowerCase(name), <<"s", "e", "c", "t", "o", "r", " ", "c", "o", "m", "u", "n", "i", "c", "a", "c", "i", "o", "n", "e", "s", " ", "a", "l", " ", "i", "n", "t", "e", "r", "n", "o">>)

\* the department and the extension the records of a row carry
RowDepartment(rowFields) ==
  IF rowFields.departmentRaw # <<>> THEN rowFields.departmentRaw
  ELSE <<"S", "e", "c", "t", "o", "r", " ", "s", "i", "n", " ", "i", "d", "e", "n", "t", "i", "f", "i", "c", "a", "r">>

RowExtension(rowFields) ==
  IF rowFields.extensionValue # <<>> THEN rowFields.extensionValue
  ELSE <<"N", "/", "A">>

\* C21: a name cell holding k names separated by "/", ";", "|", a line break
\* or " - ", none of them a boilerplate exclusion, produces exactly k
\* records, in cell order, with consecutive sequential ids, all with the
\* row's department and extension.
C21_OneRecordPerName ==
  Extracted =>
    LET counts == RecordCounts
        fields == AllSheetFields
    IN \A i \in WalkedRows :
         LET names == CellNames(fields[i].nameRaw)
             recs == RowRecordsAt(counts, i)
             department == RowDepartment(fields[i])
             extension == RowExtension(fields[i])
         IN /\ fields[i].hasName
            /\ DataRow(fields, i)
            /\ \A k \in DOMAIN names : ~IsBoilerplate(names[k])
            => /\ Len(recs) = Len(names)
               /\ \A k \in DOMAIN recs :
                    /\ recs[k].name = names[k]
                    /\ recs[k].id = DecimalDigits(counts[i] + k)
                    /\ recs[k].department = department
                    /\ recs[k].extension = extension

\* the cell "Perez, Juan / Gomez, Ana" gave exactly two records, after the
\* records of an earlier row
C21_Witness ==
  /\ Extracted
  /\ \E i \in WalkedRows :
       /\ SheetFields(i).nameRaw = <<"P", "e", "r", "e", "z", ",", " ", "J", "u", "a", "n", " ", "/", " ", "G", "o", "m", "e", "z", ",", " ", "A", "n", "a">>
       /\ DataRow(AllSheetFields, i)
       /\ Len(RecordsBefore(i)) > 0
       /\ Len(RowRecordsOf(i)) = 2
       /\ RowRecordsOf(i)[1].name = <<"P", "e", "r", "e", "z", ",", " ", "J", "u", "a", "n">>
       /\ RowRecordsOf(i)[2].name = <<"G", "o", "m", "e", "z", ",", " ", "A", "n", "a">>

\* C22: a data row that has a usable extension and no name produces exactly
\* one record, and that record's name is the literal "Sin Nombre".
C22_SinNombre ==
  Extracted =>
    LET counts == RecordCounts
        fields == AllSheetFields
    IN \A i \in WalkedRows :
         ~fields[i].hasName /\ fields[i].hasExtension /\ DataRow(fields, i)
           => LET recs == RowRecordsAt(counts, i)
              IN Len(recs) = 1 /\ recs[1].name = <<"S", "i", "n", " ", "N", "o", "m", "b", "r", "e">>

\* a row with an extension and no name gave its record
C22_Witness ==
  /\ Extracted
  /\ \E i \in WalkedRows :
       /\ ~SheetFields(i).hasName /\ SheetFields(i).hasExtension
       /\ DataRow(AllSheetFields, i)
       /\ SheetFields(i).extensionRaw = <<"I", "n", "t", ".", " ", "1", "0", "5">>
       /\ Len(RowRecordsOf(i)) = 1
       /\ RowRecordsOf(i)[1].name = <<"S", "i", "n", " ", "N", "o", "m", "b", "r", "e">>

----------------------------------------------------------------------------
(* Claims about the search (SearchSpec) *)

\* the search has run
Searched == results # NoResults

\* the query is not cut by lines 499-501
PassesGuard == trim(query) # <<>> /\ Len(query) >= 2

NormalizedQuery == normalizeText(trim(query))

\* the terms of a normalized query
TermsOf(normalized) == SelectSeq(splitOnSpace(normalized), IsNonEmptyText)

\* a normalized query without its spaces
DigitsVariantOf(normalized) == SelectSeq(normalized, IsNotSpace)

IsNumeric(digits) ==
  digits # <<>> /\ \A i \in DOMAIN digits : digits[i] \in Digits

\* the search is a name/department search
IsNameSearch == PassesGuard /\ ~IsNumeric(DigitsVariantOf(NormalizedQuery))

\* a result without what the search added to the record
PersonOf(r) ==
  [id |-> r.id, name |-> r.name, department |-> r.department,
   extension |-> r.extension, searchableName |-> r.searchableName,
   searchableExtension |-> r.searchableExtension]

ResultPeople == [k \in DOMAIN results |-> PersonOf(results[k])]

\* the records at the positions S of the record list, in record-list order
PeopleAt(S) ==
  LET Keep(k) == k \in S
      positions == SelectSeq([k \in DOMAIN allPersonnel |-> k], Keep)
  IN [j \in DOMAIN positions |-> allPersonnel[positions[j]]]

\* C15: the search returns an empty result for every query whose length
\* after trimming is less than 2 characters, whatever the record list.
C15_ShortQueryIsEmpty ==
  Searched => (Len(trim(query)) < 2 => results = <<>>)

\* the positions of the records whose searchableExtension contains digits
ExtensionHolders(digits) ==
  {k \in DOMAIN allPersonnel : includes(allPersonnel[k].searchableExtension, digits)}

\* C16, as stated: whenever the digits-only variant of the normalized query
\* is non-empty and purely numeric, the result is exactly the records whose
\* searchableExtension contains that digit string, in record-list order.
C16_NumericIsExtensionSearch ==
  Searched =>
    LET digits == DigitsVariantOf(NormalizedQuery)
    IN IsNumeric(digits) => ResultPeople = PeopleAt(ExtensionHolders(digits))

\* C16, amended: the same for a query that passes the length guard (a
\* one-digit query gets the empty result).
C16_GuardedNumericIsExtensionSearch ==
  Searched =>
    LET digits == DigitsVariantOf(NormalizedQuery)
    IN PassesGuard /\ IsNumeric(digits)
         => ResultPeople = PeopleAt(ExtensionHolders(digits))

\* an extension search returned some records, one of them for an extension
\* that is longer than the query, and left some record out
C16_Witness ==
  /\ Searched /\ PassesGuard
  /\ LET digits == DigitsVariantOf(NormalizedQuery)
     IN /\ IsNumeric(digits)
        /\ \E k \in DOMAIN results : results[k].searchableExtension # digits
        /\ Len(results) < Len(allPersonnel)
        /\ ResultPeople = PeopleAt(ExtensionHolders(digits))

\* every term equals or is a prefix of a token of the searchable name
PrefixMatch(terms, searchableName) ==
  LET tokens == splitOnSpace(searchableName)
  IN \A t \in DOMAIN terms :
       \E w \in DOMAIN tokens : tokens[w] = terms[t] \/ startsWith(tokens[w], terms[t])

\* every term is a substring of the searchable name
SubstringMatch(terms, searchableName) ==
  \A t \in DOMAIN terms : includes(searchableName, terms[t])

\* the positions of the name part of the result
NamePart(terms) ==
  LET prefixMatches ==
        {k \in DOMAIN allPersonnel : PrefixMatch(terms, allPersonnel[k].searchableName)}
      extensions == {allPersonnel[k].extension : k \in prefixMatches}
  IN IF prefixMatches # {}
       THEN {k \in DOMAIN allPersonnel : allPersonnel[k].extension \in extensions}
       ELSE {k \in DOMAIN allPersonnel :
               SubstringMatch(terms, allPersonnel[k].searchableName)}

\* C17: in a name/department search, if some record has every query term
\* equal to or a prefix of one of its searchableName tokens, the name part of
\* the result is every record whose extension is the extension of such a
\* match, without duplicates by id and in record-list order; only when there
\* is no such record is the name part the records whose searchableName
\* contains every term as a substring.  The name part comes first.
C17_NamePart ==
  Searched /\ IsNameSearch =>
    LET namePart == NamePart(TermsOf(NormalizedQuery))
    IN /\ Len(results) >= Cardinality(namePart)
       /\ SubSeq(ResultPeople, 1, Cardinality(namePart)) = PeopleAt(namePart)
       /\ \A i, j \in DOMAIN results : i # j => results[i].id # results[j].id

\* a prefix match brought a record in that shares its extension and is not a
\* match itself
C17_Witness ==
  /\ Searched /\ IsNameSearch
  /\ LET terms == TermsOf(NormalizedQuery)
         namePart == NamePart(terms)
     IN /\ \E k \in namePart : PrefixMatch(terms, allPersonnel[k].searchableName)
        /\ \E k \in namePart :
             /\ ~PrefixMatch(terms, allPersonnel[k].searchableName)
             /\ allPersonnel[k] \in Range(ResultPeople)
        /\ SubSeq(ResultPeople, 1, Cardinality(namePart)) = PeopleAt(namePart)

\* the positions of the records whose normalized department contains the
\* normalized query
DepartmentMatches(normalized) ==
  {k \in DOMAIN allPersonnel :
     includes(normalizeText(allPersonnel[k].department), normalized)}

\* the result is the name part, then the department matches not yet in it
\* when the query has exactly one term
DepartmentAddedIffOneTerm ==
  LET terms == TermsOf(NormalizedQuery)
      namePart == NamePart(terms)
  IN ResultPeople =
       PeopleAt(namePart) \o
         PeopleAt(IF Len(terms) = 1
                    THEN DepartmentMatches(NormalizedQuery) \ namePart
                    ELSE {})

\* C18, as stated: the records whose normalized department contains the
\* normalized query are added after the name matches, without duplicates, if
\* and only if the query has exactly one term; with two or more terms a record
\* that matches only by department is never returned.
C18_DepartmentOnlyNeverReturned ==
  Searched /\ IsNameSearch =>
    /\ DepartmentAddedIffOneTerm
    /\ LET terms == TermsOf(NormalizedQuery)
       IN Len(terms) >= 2 =>
            \A k \in DepartmentMatches(NormalizedQuery) :
              /\ ~PrefixMatch(terms, allPersonnel[k].searchableName)
              /\ ~SubstringMatch(terms, allPersonnel[k].searchableName)
              => allPersonnel[k] \notin Range(ResultPeople)

\* C18, amended: the department matches are added if and only if the query
\* has exactly one term; with any other number of terms the result is the
\* name part alone (a record that matches only by department is then returned
\* only when it shares its extension with a name match).
C18_DepartmentAddedIffOneTerm ==
  Searched /\ IsNameSearch => DepartmentAddedIffOneTerm

\* a one-term search returned name matches and then a record that matches
\* by department only
C18_Witness ==
  /\ Searched /\ IsNameSearch
  /\ LET terms == TermsOf(NormalizedQuery)
         namePart == NamePart(terms)
     IN /\ Len(terms) = 1
        /\ namePart # {}
        /\ DepartmentMatches(NormalizedQuery) \ namePart # {}
  /\ DepartmentAddedIffOneTerm

\* the text before the first comma, else the first token
SurnameText(name) ==
  IF "," \in Range(name)
    THEN SubSeq(name, 1, IndexOf(name, ",") - 1)
    ELSE splitOnSpace(name)[1]

\* the tiers below 3
LowerTiers(terms, searchableName) ==
  LET tokens == SelectSeq(splitOnSpace(searchableName), IsNonEmptyText)
  IN IF \A t \in DOMAIN terms :
          \E w \in DOMAIN tokens : tokens[w] = terms[t] \/ startsWith(tokens[w], terms[t])
       THEN 2
     ELSE IF \A t \in DOMAIN terms : includes(searchableName, terms[t])
       THEN 1
     ELSE 0

\* "Juan Perez" and "Ana Gomez" share extension 101 and the query is "perez"
PerezExample ==
  /\ query = <<"p", "e", "r", "e", "z">>
  /\ Len(allPersonnel) = 2
  /\ allPersonnel[1].name = <<"J", "u", "a", "n", " ", "P", "e", "r", "e", "z">> /\ allPersonnel[1].extension = <<"1", "0", "1">>
  /\ allPersonnel[2].name = <<"A", "n", "a", " ", "G", "o", "m", "e", "z">> /\ allPersonnel[2].extension = <<"1", "0", "1">>

PerezExampleScores ==
  PerezExample =>
    /\ Len(results) = 2
    /\ results[1].name = <<"J", "u", "a", "n", " ", "P", "e", "r", "e", "z">> /\ results[1].searchScore = 2
    /\ results[2].name = <<"A", "n", "a", " ", "G", "o", "m", "e", "z">> /\ results[2].searchScore = 0

\* C19, as stated: a result's score is 3 when the normalized query equals
\* the normalized surname (the text before the first comma, else the first
\* token of the name); else 2 when every term equals or begins a whole name
\* token; else 1 when every term is a substring of searchableName; else 0.
\* "Juan Perez" and "Ana Gomez" at 101 with "perez": both, scored 2 and 0.
C19_ScoreTiers ==
  Searched =>
    /\ LET normalized == NormalizedQuery
           terms == TermsOf(normalized)
       IN \A k \in DOMAIN results :
            results[k].searchScore =
              IF normalized = normalizeText(SurnameText(results[k].name))
                THEN 3
                ELSE LowerTiers(terms, results[k].searchableName)
    /\ PerezExampleScores

\* C19, amended: the same with the score 3 given when the normalized surname
\* is not empty and equals the normalized query, the surname being the whole
\* name when the text before the first comma is empty.
C19_ScoreTiersOfNonEmptySurname ==
  Searched =>
    /\ LET normalized == NormalizedQuery
           terms == TermsOf(normalized)
       IN \A k \in DOMAIN results :
            LET text == SurnameText(results[k].name)
                surname == normalizeText(IF text # <<>> THEN text ELSE results[k].name)
            IN results[k].searchScore =
                 IF surname # <<>> /\ normalized = surname
                   THEN 3
                   ELSE LowerTiers(terms, results[k].searchableName)
    /\ PerezExampleScores

\* the example has been searched
C19_Witness ==
  /\ Searched /\ PerezExample
  /\ Len(results) = 2
  /\ results[1].searchScore = 2 /\ results[2].searchScore = 0

\* the highest score of a group
MaxScoreOf(g) ==
  CHOOSE m \in {g.personnel[k].searchScore : k \in DOMAIN g.personnel} :
    \A k \in DOMAIN g.personnel : g.personnel[k].searchScore <= m

\* C20: the grouped output partitions the results by department (each
\* result in exactly one group, every record of a group has the group's
\* department, no group is empty); a group is ordered by descending score,
\* then by name; the groups are ordered by descending highest score, then by
\* department name.
C20_GroupedByDepartment ==
  Searched =>
    /\ \A k \in DOMAIN results :
         Cardinality({<<g, i>> \in (DOMAIN groupedResults) \X (DOMAIN results) :
                        /\ i \in DOMAIN groupedResults[g].personnel
                        /\ groupedResults[g].personnel[i] = results[k]}) = 1
    /\ \A g \in DOMAIN groupedResults :
         /\ groupedResults[g].personnel # <<>>
         /\ \A i \in DOMAIN groupedResults[g].personnel :
              /\ groupedResults[g].personnel[i] \in Range(results)
              /\ groupedResults[g].personnel[i].department = groupedResults[g].department
         /\ \A h \in DOMAIN groupedResults :
              h # g => groupedResults[h].department # groupedResults[g].department
         /\ \A i \in 1..(Len(groupedResults[g].personnel) - 1) :
              LET a == groupedResults[g].personnel[i]
                  b == groupedResults[g].personnel[i + 1]
              IN \/ a.searchScore > b.searchScore
                 \/ a.searchScore = b.searchScore /\ localeCompare(a.name, b.name) <= 0
    /\ \A g \in 1..(Len(groupedResults) - 1) :
         LET a == groupedResults[g]
             b == groupedResults[g + 1]
         IN \/ MaxScoreOf(a) > MaxScoreOf(b)
            \/ MaxScoreOf(a) = MaxScoreOf(b) /\ localeCompare(a.department, b.department) <= 0

\* two groups came out, one of them of two records put in an order that is
\* not that of the results
C20_Witness ==
  /\ Searched
  /\ Len(groupedResults) >= 2
  /\ \E g \in DOMAIN groupedResults :
       /\ Len(groupedResults[g].personnel) >= 2
       /\ \E i, j \in DOMAIN results :
            /\ i < j
            /\ groupedResults[g].personnel[1] = results[j]
            /\ groupedResults[g].personnel[2] = results[i]
\* the letters of a text without their case and their diacritics
BaseText(s) ==
  SelectSeq([i \in DOMAIN s |-> StripMark(LowerChar(s[i]))], IsNotCombiningMark)

\* the queries of the pool that differ from the query in case or diacritics
\* alone
QueryVariants == {q \in Queries : BaseText(q) = BaseText(query)}

JoseMartinez ==
  {k \in DOMAIN allPersonnel : allPersonnel[k].name = <<"J", "o", "s", "e'", " ", "M", "a", "r", "t", "i'", "n", "e", "z">>}

\* C25, as stated: two queries that differ only in letter case or in
\* diacritics return the same result over the same record list, and each of
\* "jose", "JOSÉ" and "José" matches a record named "José Martínez".
C25_SameResultWhateverCase ==
  Searched =>
    /\ \A q \in QueryVariants : filteredResults(q, allPersonnel) = results
    /\ BaseText(query) = <<"j", "o", "s", "e">> =>
         \A k \in JoseMartinez : allPersonnel[k] \in Range(ResultPeople)

\* C25, amended: the same for two queries that both pass the length guard of
\* lines 499-501, which counts the characters of the query as typed, a
\* combining mark being one.
C25_SameResultOfGuardedQueries ==
  Searched /\ PassesGuard =>
    /\ \A q \in QueryVariants :
         Len(q) >= 2 => filteredResults(q, allPersonnel) = results
    /\ BaseText(query) = <<"j", "o", "s", "e">> =>
         \A k \in JoseMartinez : allPersonnel[k] \in Range(ResultPeople)

\* "JOSÉ" found Jose' Marti'nez, as "jose" and "José" do
C25_Witness ==
  /\ Searched
  /\ query = <<"J", "O", "S", "E'">>
  /\ Cardinality(QueryVariants) = 3
  /\ JoseMartinez # {}
  /\ \A k \in JoseMartinez : allPersonnel[k] \in Range(ResultPeople)
  /\ Len(results) < Len(allPersonnel)

\* the positions of the records without an extension: they show "N/A"
WithoutExtension == {k \in DOMAIN allPersonnel : allPersonnel[k].extension = <<"N", "/", "A">>}

\* the record matches by its own name: its surname is the query, or every
\* term is in its searchable name
MatchesByName(normalized, terms, person) ==
  LET text == SurnameText(person.name)
      surname == normalizeText(IF text # <<>> THEN text ELSE person.name)
  IN \/ surname # <<>> /\ normalized = surname
     \/ SubstringMatch(terms, person.searchableName)

\* C30: in a name search, whenever a record without an extension matches the
\* query by name token, every record without an extension is returned, with
\* score 0 unless it matches by its own name.
C30_NoExtensionRecordsShare ==
  Searched /\ IsNameSearch =>
    LET normalized == NormalizedQuery
        terms == TermsOf(normalized)
        without == WithoutExtension
    IN (\E k \in without : PrefixMatch(terms, allPersonnel[k].searchableName))
         => \A j \in without :
              \E r \in DOMAIN results :
                /\ results[r].id = allPersonnel[j].id
                /\ results[r].searchScore = 0
                     <=> ~MatchesByName(normalized, terms, allPersonnel[j])

\* "rey" found "Rey, Ana", who has no extension, and with her "? Lopez", who
\* has none either, with score 0
C30_Witness ==
  /\ Searched
  /\ query = <<"r", "e", "y">>
  /\ \E a, b \in DOMAIN results :
       /\ results[a].name = <<"R", "e", "y", ",", " ", "A", "n", "a">> /\ results[a].extension = <<"N", "/", "A">>
       /\ results[a].searchScore = 3
       /\ results[b].name = <<"?", " ", "L", "o", "p", "e", "z">> /\ results[b].extension = <<"N", "/", "A">>
       /\ results[b].searchScore = 0
  /\ Len(results) < Len(allPersonnel)

----------------------------------------------------------------------------
(* Claims about the parsing worker (WorkerSpec) *)

\* the message carries a blob and a numeric requestId
CarriesBlobAndNumber(data) == data.blob # NoBlob /\ data.requestId.type = "number"

\* message i has been posted, with a blob and a numeric requestId
Posted(i) ==
  IF i \in DOMAIN inbox THEN CarriesBlobAndNumber(inbox[i]) ELSE FALSE

\* the responses posted for message i
ResponsesTo(i) == {k \in DOMAIN outbox : outbox[k].by = i}

\* the response is a success with the records of the grid, or an error with
\* a message, and nothing else
WellFormedFor(data, r) ==
  /\ r.requestId = data.requestId
  /\ IF data.blob.kind = "workbook" /\ data.blob.rows # <<>>
       THEN /\ r.type = "success"
            /\ r.personnel = processExcelData(clampRows(data.blob.rows))
       ELSE /\ r.type = "error"
            /\ r.message # ""

\* C29: every message with a blob and a numeric requestId gets exactly one
\* response, which carries that requestId and is a success with the records
\* parsed from that message's blob or an error with a message; a message
\* without a blob or without a numeric requestId gets none; whatever the
\* order in which the requests in flight finish, no response carries the id
\* or the records of another request.
C29_OneResponsePerRequest ==
  /\ [](\A k \in DOMAIN outbox :
          /\ CarriesBlobAndNumber(inbox[outbox[k].by])
          /\ WellFormedFor(inbox[outbox[k].by], outbox[k].data))
  /\ [](\A i \in DOMAIN inbox : Cardinality(ResponsesTo(i)) <= 1)
  /\ \A i \in 1..MaxMessages :
       Posted(i) ~> (ResponsesTo(i) # {})
  /\ [][\A i \in DOMAIN inbox : ResponsesTo(i) # {} => ResponsesTo(i)' = ResponsesTo(i)]_vars

\* two requests with different ids were in flight together and the second
\* was answered first, one with records and one with an error
C29_Witness ==
  /\ Len(outbox) = 2
  /\ outbox[1].by = 2 /\ outbox[2].by = 1
  /\ inbox[1].requestId # inbox[2].requestId
  /\ outbox[1].data.type = "success" /\ Len(outbox[1].data.personnel) = 2
  /\ outbox[2].data.type = "error"

----------------------------------------------------------------------------
(* Claims about the hook of the page (HookSpec) *)

\* call c of loadData runs to its end in this step
LoadCompletes(c) == loads[c].pc = "fetching" /\ loads'[c].pc = "done"

\* call c of loadData starts a fetch in this step
FetchStarts(c) == loads[c].pc = "idle" /\ loads'[c].pc = "fetching"

\* the failures the claim lists as malformed source
MalformedKinds == {"htmlType", "htmlBytes", "undecodable", "noSheets", "noRows"}

DirectoryNotFound == ErrorText(<<"N", "o", " ", "s", "e", " ", "e", "n", "c", "o", "n", "t", "r", "o'", " ", "e", "l", " ", "a", "r", "c", "h", "i", "v", "o", " ", "d", "e", "l", " ", "d", "i", "r", "e", "c", "t", "o", "r", "i", "o", " ", "i", "n", "t", "e", "r", "n", "o">>)
CouldNotProcess == ErrorText(<<"E", "r", "r", "o", "r", " ", "a", "l", " ", "p", "r", "o", "c", "e", "s", "a", "r", " ", "e", "l", " ", "d", "i", "r", "e", "c", "t", "o", "r", "i", "o">>)

\* C26: a failed load is classified by its kind: it is retryable exactly
\* when the fetch itself failed (transient I/O); an HTTP 404 shows the
\* "directory not found" message and is not retryable; every malformed
\* source (HTML content type, HTML sniffed in the first bytes, decode
\* failure, no worksheets, empty data) shows the "could not process
\* directory" message and is not retryable.
C26_ClassifiedByKind ==
  [][\A c \in LoadIds :
       LoadCompletes(c) /\ loads'[c].source.kind # "workbook" =>
         LET source == loads'[c].source
         IN /\ hook'.isRetryableError <=> source.kind = "rejects"
            /\ source.kind = "status" /\ source.status = 404 =>
                 hook'.error = DirectoryNotFound
            /\ source.kind \in MalformedKinds => hook'.error = CouldNotProcess]_vars

\* C28: loadData starts a fetch only when no load is in progress, the last
\* load did not succeed and the last error, if any, was retryable (so that
\* a call after a success or a non-retryable error, or during a load, is a
\* no-op); and when a load completes isLoading is false.
C28_GuardedLoad ==
  /\ [][\A c \in LoadIds :
          FetchStarts(c) =>
            /\ \A d \in LoadIds : loads[d].pc # "fetching"
            /\ ~(hook.dataLoaded /\ ~Truthy(hook.error))
            /\ ~(Truthy(hook.error) /\ ~hook.isRetryableError)]_vars
  /\ [][\A c \in LoadIds : LoadCompletes(c) => ~hook'.isLoading]_vars

----------------------------------------------------------------------------
(* Claims about the memo table (MemoSpec) *)

\* C23: the memo table never holds more than 1000 entries.
C23_AtMost1000 == Len(textNormalizationCache) <= 1000

\* the record list without its ids
FieldsOf(records) ==
  [k \in DOMAIN records |->
     [name |-> records[k].name,
      department |-> records[k].department,
      extension |-> records[k].extension,
      searchableName |-> records[k].searchableName,
      searchableExtension |-> records[k].searchableExtension]]

\* C24: the parses of one grid in one process give record lists with the
\* same name, department, extension and searchable fields in the same order,
\* whatever the memo table holds when each parse starts; every value the
\* table holds or the memoized normalizer returns is the value the
\* unmemoized normalizer returns.
C24_ParsesAgree ==
  /\ \A a, b \in DOMAIN parseLog :
       FieldsOf(parseLog[a].personnel) = FieldsOf(parseLog[b].personnel)
  /\ \A a \in DOMAIN parseLog : \A k \in DOMAIN parseLog[a].personnel :
       parseLog[a].personnel[k].searchableName =
         normalizeText(parseLog[a].personnel[k].name)
  /\ \A k \in DOMAIN returned : returned[k].value = normalizeText(returned[k].text)
  /\ \A k \in DOMAIN textNormalizationCache :
       textNormalizationCache[k].value = normalizeText(textNormalizationCache[k].key)

\* a grid gave records in a parse that started on the table as the load left
\* it, and was parsed again on a table grown past its limit from which the
\* texts of the first parse had been deleted
C24_Witness ==
  /\ Len(parseLog) = 2
  /\ parseLog[1].personnel # <<>>
  /\ parseLog[1].size = Len(MemoAtLoad)
  /\ parseLog[2].size > MemoLimit
  /\ parseLog[2].hits = 0

====
